---------------------------- MODULE Spec2Model ----------------------------
(***************************************************************************)
(* Fax intake pipeline of backend/process_fax.py (four extractors run as   *)
(* one LangGraph superstep, the aggregator's rule overrides, the           *)
(* correction lookup) and the correction store of correction_store_rag.py. *)
(*                                                                         *)
(* Strings whose characters the code inspects (provider names) are         *)
(* sequences of one-character strings; all other strings are TLA+ strings. *)
(* Similarities, distances and thresholds are in hundredths (0.85 -> 85).  *)
(***************************************************************************)
EXTENDS Integers, Sequences, FiniteSets, TLC

(***************************************************************************)
(* Bounds of the model.                                                    *)
(***************************************************************************)
\* largest number of entries the collection is allowed to reach
MaxStore == 2

(***************************************************************************)
(* Values.                                                                 *)
(***************************************************************************)
\* Python's None (try_parse_dob returns it for an unparseable date)
None == "<None>"

\* the empty provider name ""
NoName == << >>

DrLee == <<"D", "r", " ", "L", "e", "e">>

DrFazal == <<"D", "r", " ", "F", "A", "Z", "a", "l">>

DrSmith == <<"D", "r", " ", "S", "m", "i", "t", "h">>

AsimAli == <<"A", "s", "i", "m", " ", "A", "l", "i">>

MedicalARecords == <<"M", "e", "d", "i", "c", "a", "l", " ", "a", "-", "R", "e", "c", "o", "r", "d", "s">>

PriorAAuthorizations == <<"P", "r", "i", "o", "r", " ", "a", "-", "A", "u", "t", "h", "o", "r", "i", "z", "a", "t", "i", "o", "n", "s">>

FormsAStaff == <<"F", "o", "r", "m", "s", " ", "A", "-", "s", "t", "a", "f", "f">>

\* AgentState keys
Fields == {"input_text", "date_of_birth", "patient_name", "provider_name", "doc_type", "doc_subtype", "comment"}

\* document texts handed to process_fax, add and query ("" is the empty text)
Texts == {"A", "a", "C"}

(***************************************************************************)
(* str.casefold() and the `in` substring test on provider names.           *)
(***************************************************************************)
UpperCase == <<"A", "B", "C", "D", "E", "F", "G", "H", "I", "J", "K", "L", "M", "N", "O", "P", "Q", "R", "S", "T", "U", "V", "W", "X", "Y", "Z">>

LowerCase == <<"a", "b", "c", "d", "e", "f", "g", "h", "i", "j", "k", "l", "m", "n", "o", "p", "q", "r", "s", "t", "u", "v", "w", "x", "y", "z">>

CaseFoldChar(c) ==
    IF \E i \in 1..26 : UpperCase[i] = c
    THEN LowerCase[CHOOSE i \in 1..26 : UpperCase[i] = c]
    ELSE c

casefold(s) == [i \in 1..Len(s) |-> CaseFoldChar(s[i])]

\* Python's `sub in s` for strings
Contains(sub, s) ==
    \E i \in 0..(Len(s) - Len(sub)) : \A j \in 1..Len(sub) : s[i + j] = sub[j]

(***************************************************************************)
(* aggregator: the category rule, then the blocked-substring rule.         *)
(***************************************************************************)
mapping ==
    [k \in {"Prior Authorization", "Medical a-Records", "Forms"} |->
        CASE k = "Prior Authorization" -> MedicalARecords
          [] k = "Medical a-Records" -> PriorAAuthorizations
          [] k = "Forms" -> FormsAStaff]

tokens == {<<"a", "z", "z">>, <<"f", "a", "z", "a", "l">>}

\* variant: the table fills the provider name only when the extractor left it empty
CategoryRule_FillsEmptyOnly(st) ==
    IF st.doc_type \in DOMAIN mapping /\ st.provider_name = NoName
    THEN [st EXCEPT !.provider_name = mapping[st.doc_type]]
    ELSE st

\* variant: state["provider_name"] = mapping.get(doc_type, "")
CategoryRule_Get(st) ==
    [st EXCEPT !.provider_name = IF st.doc_type \in DOMAIN mapping THEN mapping[st.doc_type] ELSE NoName]

CategoryRule(st) ==
    IF st.doc_type \in DOMAIN mapping
    THEN [st EXCEPT !.provider_name = mapping[st.doc_type]]
    ELSE st

\* variant: the substring test without casefold()
BlockedRule_CaseSensitive(st) ==
    IF st.provider_name # NoName /\ (\E t \in tokens : Contains(t, st.provider_name))
    THEN [st EXCEPT !.provider_name = AsimAli]
    ELSE st

BlockedRule(st) ==
    IF st.provider_name # NoName /\ (\E t \in tokens : Contains(t, casefold(st.provider_name)))
    THEN [st EXCEPT !.provider_name = AsimAli]
    ELSE st

aggregator(st) == BlockedRule(CategoryRule(st))

(***************************************************************************)
(* init_agent_state                                                        *)
(***************************************************************************)
init_agent_state ==
    [input_text |-> "", date_of_birth |-> "", patient_name |-> "", provider_name |-> NoName,
     doc_type |-> "", doc_subtype |-> "", comment |-> ""]


(***************************************************************************)
(* RAGCorrectionStore: the embedding, the content-derived id, add, query.  *)
(***************************************************************************)
\* threshold default of query (0.85)
DefaultThreshold == 85

\* thresholds passed to query by its callers
Thresholds == {DefaultThreshold, 99, 100}

\* hash salts of the Python processes that open the store (str hashes are
\* salted per process; the same salt recurs when PYTHONHASHSEED is fixed)
Seeds == {0, 1}

\* SentenceTransformer.encode: a deterministic function of the text that is
\* not injective (the tokenizer is uncased, so "A" and "a" share a vector).
\* Vectors are points of a line.
_embed(t) ==
    CASE t = "A" -> 0
      [] t = "a" -> 0
      [] t = "C" -> 20

\* the collection's distance between two vectors, in hundredths
Distance(x, y) == IF x >= y THEN x - y ELSE y - x

\* str(abs(hash(doc_text))) in a process whose hash salt is seed
DocId(seed, t) == <<seed, t>>

\* corrections handed to add: the two shapes training_save_correction
\* builds (both keys, "" for a field the operator left alone) and the shape
\* of the module's own demo (provider_name / comment)
CorrTypeOnly == [doc_type |-> "Prior Authorization", doc_subtype |-> ""]

CorrBoth == [doc_type |-> "Labs", doc_subtype |-> "LabCorp"]

CorrDemo == [provider_name |-> DrSmith, comment |-> "Specialist follow-up required."]

Corrections == {CorrTypeOnly, CorrBoth, CorrDemo}

\* the empty dict {}
EmptyDict == [k \in {} |-> ""]

\* json.dumps of a dict of strings: its key/value pairs
json_dumps(d) == {<<k, d[k]>> : k \in DOMAIN d}

\* json.loads of such a document
json_loads(js) == [k \in {p[1] : p \in js} |-> (CHOOSE p \in js : p[1] = k)[2]]

\* collection.add: a record whose id is already in the collection is not
\* stored (the index ignores or rejects it; overwriting is upsert), any
\* other record is stored
CollectionAdd(coll, rec) ==
    IF \E e \in coll : e.id = rec.id THEN coll ELSE coll \cup {rec}

\* variant: the store object starts from an empty collection
add_FreshCollection(coll, seed, doc_text, correction) ==
    CollectionAdd({}, [id |-> DocId(seed, doc_text), doc |-> doc_text,
                       emb |-> _embed(doc_text), meta |-> json_dumps(correction)])

\* RAGCorrectionStore.add
add(coll, seed, doc_text, correction) ==
    CollectionAdd(coll, [id |-> DocId(seed, doc_text), doc |-> doc_text,
                         emb |-> _embed(doc_text), meta |-> json_dumps(correction)])

\* collection.query with n_results = 1: the stored records at the least
\* distance from the query vector (the index returns one of them)
Nearest(coll, x) ==
    {e \in coll : \A o \in coll : Distance(e.emb, x) <= Distance(o.emb, x)}

\* variant: the distance is compared with the threshold itself
WithinThreshold_NoConversion(distance, threshold) == distance < threshold

\* the test of line 35
WithinThreshold(distance, threshold) == distance < (100 - threshold)

\* RAGCorrectionStore.query, given the record hit the index returned
QueryHit(hit, x, threshold) ==
    IF WithinThreshold(Distance(hit.emb, x), threshold)
    THEN json_loads(hit.meta)
    ELSE EmptyDict

\* RAGCorrectionStore.query: the results it can return
query(coll, doc_text, threshold) ==
    IF coll = {}
    THEN {EmptyDict}
    ELSE {QueryHit(hit, _embed(doc_text), threshold) : hit \in Nearest(coll, _embed(doc_text))}

(***************************************************************************)
(* try_parse_dob (backend/ollama_agent.py).  A date string is represented  *)
(* by the fields a scan of it yields: "words" is  <n1> <w> <y>, "dash" is  *)
(* <y>-<n1>-<n2>, "slash" is <n1>/<n2>/<y>, "text" is any other string w.  *)
(* pad tells whether one-digit day and month fields carry a leading zero.  *)
(***************************************************************************)
MonthAbbr == <<"Jan", "Feb", "Mar", "Apr", "May", "Jun", "Jul", "Aug", "Sep", "Oct", "Nov", "Dec">>

MonthName == <<"January", "February", "March", "April", "May", "June", "July", "August",
               "September", "October", "November", "December">>

Words(d, w, y, pad) == [form |-> "words", n1 |-> d, n2 |-> 0, y |-> y, w |-> w, pad |-> pad]

Dash(y, m, d, pad) == [form |-> "dash", n1 |-> m, n2 |-> d, y |-> y, w |-> "", pad |-> pad]

Slash(a, b, y, pad) == [form |-> "slash", n1 |-> a, n2 |-> b, y |-> y, w |-> "", pad |-> pad]

Other(w) == [form |-> "text", n1 |-> 0, n2 |-> 0, y |-> 0, w |-> w, pad |-> FALSE]

\* a day or month field as it is written
Digits(n, pad) == IF pad /\ n < 10 THEN "0" \o ToString(n) ELSE ToString(n)

\* the characters of a date string
RawText(raw) ==
    CASE raw.form = "words" -> Digits(raw.n1, raw.pad) \o " " \o raw.w \o " " \o ToString(raw.y)
      [] raw.form = "dash"  -> ToString(raw.y) \o "-" \o Digits(raw.n1, raw.pad) \o "-" \o Digits(raw.n2, raw.pad)
      [] raw.form = "slash" -> Digits(raw.n1, raw.pad) \o "/" \o Digits(raw.n2, raw.pad) \o "/" \o ToString(raw.y)
      [] OTHER              -> raw.w

\* the formats tried at line 36, in order
Formats == <<"%d %b %Y", "%d %B %Y", "%Y-%m-%d", "%m/%d/%Y", "%d/%m/%Y">>

IsLeap(y) == (y % 4 = 0 /\ y % 100 # 0) \/ y % 400 = 0

DaysIn(m, y) ==
    IF m = 2 THEN (IF IsLeap(y) THEN 29 ELSE 28)
    ELSE IF m \in {4, 6, 9, 11} THEN 30 ELSE 31

\* datetime(y, m, d) exists
IsDate(y, m, d) == y \in 1..9999 /\ m \in 1..12 /\ d \in 1..DaysIn(m, y)

IndexOf(w, names) == CHOOSE i \in 1..12 : names[i] = w

ValueError == [error |-> "ValueError"]

\* datetime.strptime(raw, fmt): the date, or ValueError when the string
\* does not have the format or names no day of the calendar
strptime(raw, fmt) ==
    LET date(y, m, d) == IF IsDate(y, m, d) THEN [y |-> y, m |-> m, d |-> d] ELSE ValueError
    IN  CASE fmt = "%d %b %Y" /\ raw.form = "words" /\ (\E i \in 1..12 : MonthAbbr[i] = raw.w)
                -> date(raw.y, IndexOf(raw.w, MonthAbbr), raw.n1)
          [] fmt = "%d %B %Y" /\ raw.form = "words" /\ (\E i \in 1..12 : MonthName[i] = raw.w)
                -> date(raw.y, IndexOf(raw.w, MonthName), raw.n1)
          [] fmt = "%Y-%m-%d" /\ raw.form = "dash"  -> date(raw.y, raw.n1, raw.n2)
          [] fmt = "%m/%d/%Y" /\ raw.form = "slash" -> date(raw.y, raw.n1, raw.n2)
          [] fmt = "%d/%m/%Y" /\ raw.form = "slash" -> date(raw.y, raw.n2, raw.n1)
          [] OTHER -> ValueError

\* variant: the result rendered day first
strftime_DayFirst(dt) ==
    Digits(dt.d, TRUE) \o "/" \o Digits(dt.m, TRUE) \o "/" \o ToString(dt.y)

\* dt.strftime("%m/%d/%Y"), for the four-digit years strptime's %Y reads
strftime(dt) ==
    Digits(dt.m, TRUE) \o "/" \o Digits(dt.d, TRUE) \o "/" \o ToString(dt.y)

\* line 42: the string already has the shape mm/dd/yyyy
FullMatch(raw) ==
    /\ raw.form = "slash"
    /\ raw.pad \/ (raw.n1 >= 10 /\ raw.n2 >= 10)
    /\ raw.n1 \in 1..12
    /\ raw.n2 \in 1..31
    /\ raw.y \in 0..9999

RECURSIVE TryFormats(_, _)
TryFormats(raw, k) ==
    IF k > Len(Formats) THEN (IF FullMatch(raw) THEN RawText(raw) ELSE None)
    ELSE IF strptime(raw, Formats[k]) # ValueError THEN strftime(strptime(raw, Formats[k]))
    ELSE TryFormats(raw, k + 1)

try_parse_dob(raw_dob) == TryFormats(raw_dob, 1)

\* the date strings the calls are made with
Years == {1900, 1990, 2000}

RawDobs ==
    {Words(d, w, y, pad) : d \in 1..31, w \in {MonthAbbr[i] : i \in 1..12} \cup {MonthName[i] : i \in 1..12} \cup {"Janu"},
                           y \in Years, pad \in {TRUE}}
    \cup {Dash(y, m, d, TRUE) : y \in Years, m \in 1..13, d \in 1..31}
    \cup {Slash(a, b, y, pad) : a \in 1..31, b \in 1..31, y \in Years, pad \in BOOLEAN}
    \cup {Other(w) : w \in {"", "unknown", "January 2, 1990", "01-02-1990"}}

(***************************************************************************)
(* helper.py: name normalisation.  Names are sequences of one-character    *)
(* strings.                                                                *)
(***************************************************************************)
Digit == <<"0", "1", "2", "3", "4", "5", "6", "7", "8", "9">>

\* LATIN CAPITAL LETTER I WITH DOT ABOVE, a letter (str.isalnum() is True)
CapitalIDot == "U+0130"

\* COMBINING DOT ABOVE, a mark (str.isalnum() is False)
CombiningDot == "U+0307"

\* \w of Python's re: the ASCII letters, digits and "_", and every other
\* character that str.isalnum() accepts
IsWord(c) ==
    \/ \E i \in 1..26 : c = LowerCase[i] \/ c = UpperCase[i]
    \/ \E i \in 1..10 : c = Digit[i]
    \/ c = "_"
    \/ c = CapitalIDot

\* \s
IsSpace(c) == c = " "

\* str.lower() of one character: U+0130 becomes "i" followed by U+0307
LowerChar(c) == IF c = CapitalIDot THEN <<"i", CombiningDot>> ELSE <<CaseFoldChar(c)>>

\* str.lower()
RECURSIVE lower(_)
lower(s) == IF s = << >> THEN << >> ELSE LowerChar(Head(s)) \o lower(Tail(s))

RECURSIVE SplitFrom(_, _, _, _)
SplitFrom(s, i, cur, acc) ==
    IF i > Len(s) THEN (IF cur = << >> THEN acc ELSE Append(acc, cur))
    ELSE IF IsSpace(s[i]) THEN SplitFrom(s, i + 1, << >>, IF cur = << >> THEN acc ELSE Append(acc, cur))
    ELSE SplitFrom(s, i + 1, Append(cur, s[i]), acc)

\* str.split(): the maximal runs of non-blank characters
split(s) == SplitFrom(s, 1, << >>, << >>)

\* " ".join(toks)
RECURSIVE join(_)
join(toks) ==
    IF toks = << >> THEN << >>
    ELSE IF Len(toks) = 1 THEN toks[1]
    ELSE toks[1] \o <<" ">> \o join(Tail(toks))

\* re.sub(r"[^\w\s]", " ", text)
PunctuationToSpace(text) ==
    [i \in 1..Len(text) |-> IF IsWord(text[i]) \/ IsSpace(text[i]) THEN text[i] ELSE " "]

\* line 10: punctuation to blanks, lower case, blank runs collapsed, stripped
normalize_name(text) == join(split(lower(PunctuationToSpace(text))))

HasComma(raw) == \E i \in 1..Len(raw) : raw[i] = ","

FirstComma(raw) == CHOOSE i \in 1..Len(raw) : raw[i] = "," /\ \A j \in 1..(i - 1) : raw[j] # ","

\* raw.split(",", 1)
BeforeComma(raw) == SubSeq(raw, 1, FirstComma(raw) - 1)

AfterComma(raw) == SubSeq(raw, FirstComma(raw) + 1, Len(raw))

\* what first_name_only yields when [0] is applied to an empty list
IndexError == <<"IndexError">>

\* lines 12-20
first_name_only(raw) ==
    IF raw = << >> THEN << >>
    ELSE IF HasComma(raw)
         THEN LET after == split(AfterComma(raw))
              IN  IF after = << >> THEN << >> ELSE lower(after[1])
         ELSE LET toks == split(normalize_name(raw))
              IN  IF toks = << >> THEN IndexError ELSE toks[1]

\* lines 22-31
last_name_tokens(raw) ==
    IF raw = << >> THEN << >>
    ELSE IF HasComma(raw) THEN split(normalize_name(BeforeComma(raw)))
    ELSE LET toks == split(normalize_name(raw))
         IN  IF Len(toks) > 1 THEN Tail(toks) ELSE << >>

(***************************************************************************)
(* fuzzywuzzy.fuzz with its pure-Python matcher, difflib.SequenceMatcher   *)
(* (no junk: autojunk needs 200 characters).  Scores are integers 0..100.  *)
(***************************************************************************)
\* number of equal characters of a[i..ahi] and b[j..bhi] from their starts
RECURSIVE Extent(_, _, _, _, _, _)
Extent(a, b, i, j, ahi, bhi) ==
    IF i > ahi \/ j > bhi THEN 0
    ELSE IF a[i] # b[j] THEN 0
    ELSE 1 + Extent(a, b, i + 1, j + 1, ahi, bhi)

\* SequenceMatcher.find_longest_match: the longest common block of
\* a[alo..ahi] and b[blo..bhi], the earliest in a, then the earliest in b
find_longest_match(a, b, alo, ahi, blo, bhi) ==
    LET Earliest(size, top) ==
            LET InRow(i0) ==
                    [i |-> i0,
                     j |-> CHOOSE j \in blo..bhi :
                               /\ size[<<i0, j>>] = top
                               /\ \A j2 \in blo..(j - 1) : size[<<i0, j2>>] < top,
                     size |-> top]
            IN  InRow(CHOOSE i \in alo..ahi :
                          /\ \E j \in blo..bhi : size[<<i, j>>] = top
                          /\ \A i2 \in alo..(i - 1) : \A j \in blo..bhi : size[<<i2, j>>] < top)
        Longest(size) ==
            Earliest(size, CHOOSE k \in 0..Len(a) :
                               /\ \E p \in DOMAIN size : size[p] = k
                               /\ \A p \in DOMAIN size : size[p] <= k)
    IN  Longest([p \in (alo..ahi) \X (blo..bhi) |-> Extent(a, b, p[1], p[2], ahi, bhi)])

\* SequenceMatcher.get_matching_blocks, without the closing empty block
RECURSIVE get_matching_blocks(_, _, _, _, _, _)
get_matching_blocks(a, b, alo, ahi, blo, bhi) ==
    IF alo > ahi \/ blo > bhi THEN << >>
    ELSE LET Around(m) ==
                 IF m.size = 0 THEN << >>
                 ELSE get_matching_blocks(a, b, alo, m.i - 1, blo, m.j - 1)
                      \o <<m>>
                      \o get_matching_blocks(a, b, m.i + m.size, ahi, m.j + m.size, bhi)
         IN  Around(find_longest_match(a, b, alo, ahi, blo, bhi))

RECURSIVE SumSizes(_)
SumSizes(blocks) == IF blocks = << >> THEN 0 ELSE Head(blocks).size + SumSizes(Tail(blocks))

\* SequenceMatcher.ratio() as the fraction <<2 * matches, length sum>>
SequenceMatcher_ratio(a, b) ==
    <<2 * SumSizes(get_matching_blocks(a, b, 1, Len(a), 1, Len(b))), Len(a) + Len(b)>>

\* utils.intr(100 * r): Python's round, halves to the even neighbour
intr(r) ==
    LET n == 100 * r[1]
        q == n \div r[2]
        rem == n % r[2]
    IN  IF 2 * rem < r[2] THEN q
        ELSE IF 2 * rem > r[2] THEN q + 1
        ELSE IF q % 2 = 0 THEN q ELSE q + 1

\* fuzz.ratio with its decorators: equal strings 100, an empty string 0
fuzz_ratio(s1, s2) ==
    IF s1 = s2 THEN 100
    ELSE IF Len(s1) = 0 \/ Len(s2) = 0 THEN 0
    ELSE intr(SequenceMatcher_ratio(s1, s2))

\* fuzz.partial_ratio: the shorter string against the windows of the longer
\* one that the matching blocks (and the closing block) line up
fuzz_partial_ratio(s1, s2) ==
    LET Best(scores) ==
            IF \E r \in scores : 1000 * r[1] > 995 * r[2] THEN 100
            ELSE intr(CHOOSE r \in scores : \A q \in scores : r[1] * q[2] >= q[1] * r[2])
        Windows(shorter, longer, blocks) ==
            Best({SequenceMatcher_ratio(shorter,
                                        SubSeq(longer, ls + 1,
                                               IF ls + Len(shorter) < Len(longer) THEN ls + Len(shorter) ELSE Len(longer))) :
                    ls \in {IF blocks[n].j - blocks[n].i > 0 THEN blocks[n].j - blocks[n].i ELSE 0 : n \in 1..Len(blocks)}
                            \cup {Len(longer) - Len(shorter)}})
        Partial(shorter, longer) ==
            Windows(shorter, longer, get_matching_blocks(shorter, longer, 1, Len(shorter), 1, Len(longer)))
    IN  IF s1 = s2 THEN 100
        ELSE IF Len(s1) = 0 \/ Len(s2) = 0 THEN 0
        ELSE Partial(IF Len(s1) <= Len(s2) THEN s1 ELSE s2, IF Len(s1) <= Len(s2) THEN s2 ELSE s1)

\* utils.full_process: non-alphanumerics to blanks, lower case, stripped
full_process(s) ==
    LET t == lower(PunctuationToSpace(s))
        keep == {i \in 1..Len(t) : ~IsSpace(t[i])}
    IN  IF keep = {} THEN << >>
        ELSE SubSeq(t, CHOOSE i \in keep : \A k \in keep : i <= k, CHOOSE i \in keep : \A k \in keep : i >= k)

\* code-point order of the characters that are left after full_process
Alphabet == Digit \o <<"_">> \o LowerCase

Code(c) == CHOOSE i \in 1..Len(Alphabet) : Alphabet[i] = c

\* Python's < on strings
Less(x, y) ==
    \/ Len(x) < Len(y) /\ \A i \in 1..Len(x) : x[i] = y[i]
    \/ \E k \in 1..Len(x) :
          /\ k <= Len(y)
          /\ \A i \in 1..(k - 1) : x[i] = y[i]
          /\ Code(x[k]) < Code(y[k])

\* sorted(set of strings)
RECURSIVE sorted(_)
sorted(S) ==
    IF S = {} THEN << >>
    ELSE LET m == CHOOSE x \in S : \A y \in S \ {x} : Less(x, y)
         IN  <<m>> \o sorted(S \ {m})

TokenSet(s) ==
    LET Elements(toks) == {toks[i] : i \in 1..Len(toks)}
    IN  Elements(split(s))

Largest(S) == CHOOSE n \in S : \A k \in S : n >= k

\* fuzz.token_set_ratio (fuzz._token_set with partial=False)
fuzz_token_set_ratio(s1, s2) ==
    LET \* .strip() of the two joined with one blank
        combine(x, y) == IF x = << >> THEN y ELSE IF y = << >> THEN x ELSE x \o <<" ">> \o y
        Three(sorted_sect, combined_1to2, combined_2to1) ==
            Largest({fuzz_ratio(sorted_sect, combined_1to2),
                     fuzz_ratio(sorted_sect, combined_2to1),
                     fuzz_ratio(combined_1to2, combined_2to1)})
        Combined(sorted_sect, sorted_1to2, sorted_2to1) ==
            Three(sorted_sect, combine(sorted_sect, sorted_1to2), combine(sorted_sect, sorted_2to1))
        Sets(tokens1, tokens2) ==
            Combined(join(sorted(tokens1 \cap tokens2)),
                     join(sorted(tokens1 \ tokens2)),
                     join(sorted(tokens2 \ tokens1)))
        Processed(p1, p2) ==
            IF Len(p1) = 0 \/ Len(p2) = 0 THEN 0
            ELSE Sets(TokenSet(p1), TokenSet(p2))
    IN  Processed(full_process(s1), full_process(s2))

(***************************************************************************)
(* helper.strong_enough_match.  Scores are in hundredths.                  *)
(***************************************************************************)
base_threshold == 70

relaxed_threshold == 60

last_partial_thresh == 80

\* the call ends in the IndexError of first_name_only
Raised == [exception |-> "IndexError"]

\* lines 54-70
Cascade(score_token, score_partial, first_ok, last_ok) ==
    IF score_token >= base_threshold
    THEN [ok |-> TRUE, score |-> score_token, reason |-> "token_set >= base_threshold"]
    ELSE IF first_ok /\ score_token >= relaxed_threshold
    THEN [ok |-> TRUE, score |-> score_token, reason |-> "first name exact + relaxed token_set"]
    ELSE IF first_ok /\ last_ok
    THEN [ok |-> TRUE, score |-> IF score_token >= score_partial THEN score_token ELSE score_partial,
          reason |-> "first exact + last partial"]
    ELSE IF score_partial >= base_threshold
    THEN [ok |-> TRUE, score |-> score_partial, reason |-> "partial >= base_threshold"]
    ELSE [ok |-> FALSE, score |-> score_token, reason |-> "no rule matched"]

\* lines 36-70
strong_enough_match(target_full, candidate_full) ==
    LET Rules(t_norm, c_norm, tgt_first, can_first, last_tokens) ==
            IF tgt_first = IndexError \/ can_first = IndexError
            THEN Raised
            ELSE Cascade(fuzz_token_set_ratio(t_norm, c_norm),
                         fuzz_partial_ratio(t_norm, c_norm),
                         tgt_first = can_first,
                         \E n \in 1..Len(last_tokens) : fuzz_partial_ratio(last_tokens[n], c_norm) >= last_partial_thresh)
    IN  Rules(normalize_name(target_full), normalize_name(candidate_full),
              first_name_only(target_full), first_name_only(candidate_full),
              last_name_tokens(target_full))

\* the names strong_enough_match is called with: "", " ", ".", "Al Li", "Li, Al", "Al Lin De Wu", "Al Lee", "Al", "Bo Ray", "AL LI", "Al Wu", "Lin"
PatientNames ==
    {<<>>,
     <<" ">>,
     <<".">>,
     <<"A", "l", " ", "L", "i">>,
     <<"L", "i", ",", " ", "A", "l">>,
     <<"A", "l", " ", "L", "i", "n", " ", "D", "e", " ", "W", "u">>,
     <<"A", "l", " ", "L", "e", "e">>,
     <<"A", "l">>,
     <<"B", "o", " ", "R", "a", "y">>,
     <<"A", "L", " ", "L", "I">>,
     <<"A", "l", " ", "W", "u">>,
     <<"L", "i", "n">>}

(***************************************************************************)
(* TalkEHRBot.select_patient (talkehr_agent.py).  A row of the patient     *)
(* drop-down is the first line of its text (the name) and the digits after *)
(* "MRN:" when the row shows them: mrn is << >> or <<number>>.  Rows are   *)
(* counted from 1 and index 0 stands for None.                             *)
(***************************************************************************)
\* longest candidate list (patient rows, menu options)
MaxCandidates == 3

\* "Al Li" MRN:5, "Li, Al" MRN:3, "AL LI" without MRN, "Al Wu" MRN:4, "Bo Ray" MRN:1
RowPool ==
    {[name |-> <<"A", "l", " ", "L", "i">>, mrn |-> <<5>>],
     [name |-> <<"L", "i", ",", " ", "A", "l">>, mrn |-> <<3>>],
     [name |-> <<"A", "L", " ", "L", "I">>, mrn |-> << >>],
     [name |-> <<"A", "l", " ", "W", "u">>, mrn |-> <<4>>],
     [name |-> <<"B", "o", " ", "R", "a", "y">>, mrn |-> <<1>>]}

\* the lists of distinct elements of a pool, up to MaxCandidates long
ListsOf(pool) ==
    UNION {{l \in [1..n -> pool] : \A i \in 1..n : \A j \in 1..n : l[i] = l[j] => i = j} : n \in 0..MaxCandidates}

\* the patient names searched for: "Al Li" and "."
TargetNames == {<<"A", "l", " ", "L", "i">>, <<".">>}

\* line 194
MrnOf(row) == IF row.mrn = << >> THEN 0 ELSE row.mrn[1]

\* lines 178-182
NoBest == [best_idx |-> 0, best_score |-> -100, chosen_mrn |-> 0]

\* variant: the first candidate that passed is kept
RECURSIVE Scan_FirstPassed(_, _, _, _)
Scan_FirstPassed(target_full, rows, i, best) ==
    IF i > Len(rows) THEN best
    ELSE LET Update(r, mrn) ==
                 IF r # Raised /\ r.ok /\ best.best_idx = 0
                 THEN [best_idx |-> i, best_score |-> r.score, chosen_mrn |-> mrn]
                 ELSE best
         IN  Scan_FirstPassed(target_full, rows, i + 1,
                              Update(strong_enough_match(target_full, rows[i].name), MrnOf(rows[i])))

\* lines 184-208: the loop over the rows; an exception of the matcher skips the row
RECURSIVE Scan(_, _, _, _)
Scan(target_full, rows, i, best) ==
    IF i > Len(rows) THEN best
    ELSE LET Update(r, mrn) ==
                 IF /\ r # Raised
                    /\ r.ok
                    /\ \/ r.score > best.best_score
                       \/ r.score = best.best_score /\ mrn < best.chosen_mrn
                 THEN [best_idx |-> i, best_score |-> r.score, chosen_mrn |-> mrn]
                 ELSE best
         IN  Scan(target_full, rows, i + 1,
                  Update(strong_enough_match(target_full, rows[i].name), MrnOf(rows[i])))

\* lines 153-220: the row select_patient decides to click, 0 for none
Chosen(patient_name, rows) ==
    LET Ok(r) == r # Raised /\ r.ok
    IN  IF rows = << >> THEN 0
        ELSE IF Len(rows) = 1
             THEN (IF Ok(strong_enough_match(patient_name, rows[1].name)) THEN 1 ELSE 0)
             ELSE Scan(patient_name, rows, 1, NoBest).best_idx

NoSelection ==
    [called |-> FALSE, patient_name |-> << >>, rows |-> << >>, dropdown |-> FALSE,
     chosen |-> 0, clicked |-> 0, returned |-> FALSE]

(***************************************************************************)
(* TalkEHRBot.select_doc_type.  Option texts and the document type are     *)
(* sequences of characters; rapidfuzz scores are exact fractions           *)
(* <<numerator, denominator>> on the 0..100 scale.                         *)
(***************************************************************************)
IsWordOrSpace(c) == IsWord(c) \/ IsSpace(c)

RECURSIVE Insert(_, _)
Insert(w, ws) ==
    IF ws = << >> THEN <<w>>
    ELSE IF Head(ws) = w \/ Less(Head(ws), w) THEN <<Head(ws)>> \o Insert(w, Tail(ws))
    ELSE <<w>> \o ws

\* list.sort()
RECURSIVE SortWords(_)
SortWords(ws) == IF ws = << >> THEN << >> ELSE Insert(Head(ws), SortWords(Tail(ws)))

\* lines 76-80: punctuation removed, lower case, the words sorted
TalkEHRBot_normalize_name(name) == join(SortWords(split(lower(SelectSeq(name, IsWordOrSpace)))))

\* one row of the longest-common-subsequence table of a and b
RECURSIVE LcsRow(_, _, _, _, _)
LcsRow(a, b, i, prev, cur) ==
    IF Len(cur) = Len(b) THEN cur
    ELSE LET j == Len(cur) + 1
             diag == IF j = 1 THEN 0 ELSE prev[j - 1]
             left == IF j = 1 THEN 0 ELSE cur[j - 1]
         IN  LcsRow(a, b, i, prev,
                    Append(cur, IF a[i] = b[j] THEN diag + 1
                                ELSE IF prev[j] >= left THEN prev[j] ELSE left))

RECURSIVE LcsRows(_, _, _, _)
LcsRows(a, b, i, prev) ==
    IF i > Len(a) THEN (IF Len(b) = 0 THEN 0 ELSE prev[Len(b)])
    ELSE LcsRows(a, b, i + 1, LcsRow(a, b, i, prev, << >>))

\* rapidfuzz's Indel distance: insertions and deletions turning a into b
indel_distance(a, b) == Len(a) + Len(b) - 2 * LcsRows(a, b, 1, [j \in 1..Len(b) |-> 0])

\* 100 - 100 * dist / lensum
norm_distance(dist, lensum) == <<100 * (lensum - dist), lensum>>

FracGreater(x, y) == x[1] * y[2] > y[1] * x[2]

\* rapidfuzz.fuzz.token_set_ratio
rapidfuzz_token_set_ratio(s1, s2) ==
    LET Top(three) == CHOOSE x \in three : \A y \in three : ~FracGreater(y, x)
        Ratios(result, sep, ab_len, ba_len, sect_len) ==
            IF sect_len = 0 THEN result
            ELSE Top({result,
                      \* sect_ab_ratio and sect_ba_ratio
                      norm_distance(sep + ab_len, sect_len + (sect_len + sep + ab_len)),
                      norm_distance(sep + ba_len, sect_len + (sect_len + sep + ba_len))})
        Lengths(diff_ab_joined, diff_ba_joined, sep, ab_len, ba_len, sect_len) ==
            Ratios(norm_distance(indel_distance(diff_ab_joined, diff_ba_joined),
                                 (sect_len + sep + ab_len) + (sect_len + sep + ba_len)),
                   sep, ab_len, ba_len, sect_len)
        Joined(diff_ab_joined, diff_ba_joined, sect_len) ==
            Lengths(diff_ab_joined, diff_ba_joined, IF sect_len # 0 THEN 1 ELSE 0,
                    Len(diff_ab_joined), Len(diff_ba_joined), sect_len)
        Sets(tokens_a, tokens_b) ==
            IF tokens_a = {} \/ tokens_b = {} THEN <<0, 1>>
            ELSE IF tokens_a \cap tokens_b # {} /\ (tokens_a \subseteq tokens_b \/ tokens_b \subseteq tokens_a)
            THEN <<100, 1>>
            ELSE Joined(join(sorted(tokens_a \ tokens_b)),
                        join(sorted(tokens_b \ tokens_a)),
                        Len(join(sorted(tokens_a \cap tokens_b))))
    IN  Sets(TokenSet(s1), TokenSet(s2))

\* the default of select_doc_type's threshold argument
doc_type_threshold == 80

\* the document types typed: "Labs", "Lab Orders"
DocTypes == {<<"L", "a", "b", "s">>, <<"L", "a", "b", " ", "O", "r", "d", "e", "r", "s">>}

\* the option texts: "Lab", "Labs", "Lab Ordering", "LAB ORDERING", "X-Ray"
OptionPool == {<<"L", "a", "b">>, <<"L", "a", "b", "s">>, <<"L", "a", "b", " ", "O", "r", "d", "e", "r", "i", "n", "g">>, <<"L", "A", "B", " ", "O", "R", "D", "E", "R", "I", "N", "G">>, <<"X", "-", "R", "a", "y">>}

\* line 252
NoOption == [best_text |-> << >>, best_score |-> <<0, 1>>]

\* variant: every option is ranked, none is taken on sight
RECURSIVE Walk_RankOnly(_, _, _, _, _)
Walk_RankOnly(target_norm, opts, i, best, clickable) ==
    IF i > Len(opts) THEN [selected |-> << >>, best |-> best]
    ELSE LET Step(score) ==
                 Walk_RankOnly(target_norm, opts, i + 1,
                               IF FracGreater(score, best.best_score)
                               THEN [best_text |-> <<opts[i]>>, best_score |-> score]
                               ELSE best,
                               clickable)
         IN  Step(rapidfuzz_token_set_ratio(target_norm, TalkEHRBot_normalize_name(opts[i])))

\* lines 253-262: the loop over the options; _click_option_by_text succeeds
\* on the texts in clickable
RECURSIVE Walk(_, _, _, _, _)
Walk(target_norm, opts, i, best, clickable) ==
    IF i > Len(opts) THEN [selected |-> << >>, best |-> best]
    ELSE LET Scored(text_norm, score) ==
                 IF /\ Contains(target_norm, text_norm) \/ Contains(text_norm, target_norm)
                    /\ opts[i] \in clickable
                 THEN [selected |-> <<opts[i]>>, best |-> best]
                 ELSE Walk(target_norm, opts, i + 1,
                           IF FracGreater(score, best.best_score)
                           THEN [best_text |-> <<opts[i]>>, best_score |-> score]
                           ELSE best,
                           clickable)
             Step(text_norm) == Scored(text_norm, rapidfuzz_token_set_ratio(target_norm, text_norm))
         IN  Step(TalkEHRBot_normalize_name(opts[i]))

\* lines 251-277, for a non-empty list of options: the text clicked (<< >>
\* for none), on which ground, and the value returned
Decide(doc_type, opts, clickable, accept_first_if_no_match) ==
    LET After(w) ==
            IF w.selected # << >>
            THEN [selected |-> w.selected, ground |-> "substring", returned |-> TRUE]
            ELSE IF w.best.best_text # << >> /\ w.best.best_score[1] >= doc_type_threshold * w.best.best_score[2]
            THEN IF w.best.best_text[1] \in clickable
                 THEN [selected |-> w.best.best_text, ground |-> "fuzzy", returned |-> TRUE]
                 ELSE [selected |-> << >>, ground |-> "none", returned |-> FALSE]
            ELSE IF accept_first_if_no_match /\ opts[1] \in clickable
            THEN [selected |-> <<opts[1]>>, ground |-> "first", returned |-> TRUE]
            ELSE [selected |-> << >>, ground |-> "none", returned |-> FALSE]
    IN  After(Walk(TalkEHRBot_normalize_name(doc_type), opts, 1, NoOption, clickable))

\* longest time the polling loop is followed, in poll periods
MaxElapsed == 3

\* the values of max_wait: << >> is None (the default), <<1>> one period
MaxWaits == {<< >>, <<1>>}

NoMenu ==
    [pc |-> "idle", doc_type |-> << >>, opts |-> << >>, clickable |-> {}, max_wait |-> << >>,
     accept_first_if_no_match |-> FALSE, elapsed |-> 0, exit |-> "",
     selected |-> << >>, ground |-> "none", returned |-> FALSE]

(***************************************************************************)
(* The extractor nodes call_llm_1 .. call_llm_4.                           *)
(***************************************************************************)
Extractors == 1..4

\* what extract_information can return: (date_of_birth, patient_name,
\* provider_name), the date being try_parse_dob's result
ExtractInformation ==
    {<<try_parse_dob(Slash(1, 2, 1990, TRUE)), "John Doe", DrLee>>,
     <<try_parse_dob(Other("")), "John Doe", DrFazal>>,
     <<try_parse_dob(Slash(1, 2, 1990, TRUE)), "", NoName>>}

\* what find_doctype can return (the label the backend answered, unchecked)
FindDoctype == {"Labs", "Prior Authorization", "Forms"}

\* what find_sub_doctype can return
FindSubDoctype == {"Quest"}

\* what generate_document_comments can return
GenerateDocumentComments == {"- follow up in two weeks"}

call_llm_1(r) == [date_of_birth |-> r[1], patient_name |-> r[2], provider_name |-> r[3]]

call_llm_2(r) == [doc_type |-> r]

call_llm_3(r) == [doc_subtype |-> r]

call_llm_4(r) == [comment |-> r]

\* the state updates node i can return
NodeReturns(i) ==
    CASE i = 1 -> {call_llm_1(r) : r \in ExtractInformation}
      [] i = 2 -> {call_llm_2(r) : r \in FindDoctype}
      [] i = 3 -> {call_llm_3(r) : r \in FindSubDoctype}
      [] i = 4 -> {call_llm_4(r) : r \in GenerateDocumentComments}

(***************************************************************************)
(* The compiled graph: START -> call_llm_1..4 (one superstep) -> aggregator*)
(* -> END.  The updates of a superstep are applied to the state's channels *)
(* when every node of the superstep has returned; two updates of one       *)
(* channel in a superstep are an InvalidUpdateError.                       *)
(***************************************************************************)
WriteConflict(writes) ==
    \E i, j \in Extractors : i # j /\ DOMAIN writes[i] \cap DOMAIN writes[j] # {}

\* variant: the update of the last node is not applied
ApplyWrites_DropsLast(st, writes) ==
    [k \in Fields |->
        IF \E i \in 1..3 : k \in DOMAIN writes[i]
        THEN writes[CHOOSE i \in 1..3 : k \in DOMAIN writes[i]][k]
        ELSE st[k]]

ApplyWrites(st, writes) ==
    [k \in Fields |->
        IF \E i \in Extractors : k \in DOMAIN writes[i]
        THEN writes[CHOOSE i \in Extractors : k \in DOMAIN writes[i]][k]
        ELSE st[k]]

(***************************************************************************)
(* _apply_rag_corrections, given the dict query returned.                  *)
(***************************************************************************)
CorrectionKeys == {"doc_type", "doc_subtype"}

\* Python truthiness of a stored category / subcategory string
Truthy(v) == v # ""

\* variant: every key of the stored correction is written
ApplyCorrection_AllKeys(st, correction) ==
    [k \in Fields |->
        IF k \in DOMAIN correction /\ Truthy(correction[k])
        THEN correction[k]
        ELSE st[k]]

\* variant: the loop covers doc_type only
ApplyCorrection_TypeOnly(st, correction) ==
    [k \in Fields |->
        IF k = "doc_type" /\ k \in DOMAIN correction /\ Truthy(correction[k])
        THEN correction[k]
        ELSE st[k]]

\* variant: state[k] = correction.get(k, "") for both keys
ApplyCorrection_Get(st, correction) ==
    [k \in Fields |->
        IF k \in CorrectionKeys
        THEN (IF k \in DOMAIN correction THEN correction[k] ELSE "")
        ELSE st[k]]

ApplyCorrection(st, correction) ==
    [k \in Fields |->
        IF k \in CorrectionKeys /\ k \in DOMAIN correction /\ Truthy(correction[k])
        THEN correction[k]
        ELSE st[k]]

(***************************************************************************)
(* Texts handed to normalize_name alone.                                   *)
(***************************************************************************)
\* longest text
MaxLen == 3

\* an upper-case and a lower-case letter, a blank, punctuation, U+0130
NameChars == {"A", "b", " ", ",", CapitalIDot}

NameTexts == UNION {[1..n -> NameChars] : n \in 0..MaxLen}

NoNorm == [called |-> FALSE, text |-> << >>, once |-> << >>, twice |-> << >>]

(***************************************************************************)
(* State.                                                                  *)
(***************************************************************************)
(***************************************************************************)
(* main.py / frontend/client.py: one filing run.  The record is the answer *)
(* of process_fax (run_once) or of POST /process_url (_run_once); the      *)
(* browser steps are calls of TalkEHRBot methods, each with the outcomes   *)
(* the method can have.                                                    *)
(***************************************************************************)
\* the built-in all() on a list
all(xs) == \A i \in 1..Len(xs) : Truthy(xs[i])

\* the records a run is made with
RunRecords ==
    [patient_name : {"", "John Doe"}, doc_type : {"", "Lab Report"},
     doc_subtype : {"", "CBC"}, provider_name : {"", "Dr Lee"}]

\* no record yet
NoRecord == [patient_name |-> None, doc_type |-> None, doc_subtype |-> None, provider_name |-> None]

NoRun == [pc |-> "idle", who |-> "", response |-> NoRecord, steps |-> << >>, ret |-> "<running>"]

\* no concurrent add requests yet
NoAdds == [pc |-> "idle", text |-> "", fields |-> << >>, at |-> << >>, order |-> << >>]

\* no call of a click helper yet
NoClick ==
    [pc |-> "idle", fn |-> "", caller |-> "", idx |-> 0, text |-> << >>, retries |-> 0,
     attempt |-> 0, clicked |-> << >>, result |-> "<running>"]

\* the button clicks followed (each click of Start Normal Mode or Next Fax
\* can start one thread)
MaxClicks == 3

\* the desktop client after construction: no thread, no _normal_thread, no
\* _stop_normal, no _driver
NoApp ==
    [clicks |-> 0, kind |-> [k \in 1..MaxClicks |-> ""], at |-> [k \in 1..MaxClicks |-> "none"],
     normal_thread |-> 0, stop_normal |-> "unset", driver |-> 0, built |-> 0]

VARIABLES
    pc,         \* position of the process_fax call: idle, extract, aggregate, rag, returned, raised
    state,      \* the AgentState of the call
    status,     \* per extractor node: idle, running, ok, failed
    writes,     \* per extractor node: the update it returned
    merged,     \* history: the state when the extractor superstep was applied
    ruled,      \* history: the state the aggregator returned
    aggRuns,    \* history: number of aggregator runs in this call
    rag,        \* history: what the correction lookup of this call did
    coll,       \* the persisted "corrections" collection
    seed,       \* hash salt of the running Python process
    lastQuery,  \* history: the last direct call of query on the collection as it is now
    dob,        \* the last call of try_parse_dob: its argument and result
    match,      \* the last call of strong_enough_match: its arguments and result
    sel,        \* the last call of select_patient
    menu,       \* the call of select_doc_type
    norm,       \* the last call of normalize_name, and normalize_name of its result
    run,        \* the filing run (run_once / _run_once): position, calls made, return value
    adds,       \* two concurrent add requests for one document text
    clk,        \* the call of a click helper with retries
    app         \* the desktop client: worker threads, training driver

vars == <<pc, state, status, writes, merged, ruled, aggRuns, rag, coll, seed, lastQuery, dob, match, sel, menu,
          norm, run, adds, clk, app>>

\* the variables of the browser side and of the calls followed on their own
uiVars == <<norm, run, adds, clk, app>>

\* the variables of the calls made outside process_fax and the store
callVars == <<dob, match, sel, menu, uiVars>>

pipeVars == <<pc, state, status, writes, merged, ruled, aggRuns, rag>>

\* the variables of process_fax and the store
baseVars == <<pipeVars, coll, seed, lastQuery>>

NoRag == [outcome |-> "none", queries |-> 0, correction |-> EmptyDict]

Init ==
    /\ pc = "idle"
    /\ state = init_agent_state
    /\ status = [i \in Extractors |-> "idle"]
    /\ writes = [i \in Extractors |-> EmptyDict]
    /\ merged = init_agent_state
    /\ ruled = init_agent_state
    /\ aggRuns = 0
    /\ rag = NoRag
    /\ coll = {}
    /\ seed = 0
    /\ lastQuery = {}
    /\ dob = [raw |-> Other(""), result |-> "<no call>"]
    /\ match = [called |-> FALSE, target |-> << >>, candidate |-> << >>,
                result |-> [ok |-> FALSE, score |-> 0, reason |-> "<no call>"]]
    /\ sel = NoSelection
    /\ menu = NoMenu
    /\ norm = NoNorm
    /\ run = NoRun
    /\ adds = NoAdds
    /\ clk = NoClick
    /\ app = NoApp

(***************************************************************************)
(* process_fax                                                             *)
(***************************************************************************)
\* lines 110-112: the initial state, then invoke starts the four nodes
Start(t) ==
    /\ pc \in {"idle", "returned", "raised"}
    /\ \A i \in Extractors : status[i] # "running"
    /\ pc' = "extract"
    /\ state' = [init_agent_state EXCEPT !.input_text = t]
    /\ status' = [i \in Extractors |-> "running"]
    /\ writes' = [i \in Extractors |-> EmptyDict]
    /\ merged' = init_agent_state
    /\ ruled' = init_agent_state
    /\ aggRuns' = 0
    /\ rag' = NoRag
    /\ UNCHANGED <<coll, seed, lastQuery, callVars>>

\* node i returns its update
ExtractorReturn(i, w) ==
    /\ pc \in {"extract", "raised"}
    /\ status[i] = "running"
    /\ status' = [status EXCEPT ![i] = "ok"]
    /\ writes' = [writes EXCEPT ![i] = w]
    /\ UNCHANGED <<pc, state, merged, ruled, aggRuns, rag, coll, seed, lastQuery, callVars>>

\* node i raises: no node catches, invoke re-raises and so does process_fax
\* (the nodes still running finish on their threads, their updates unused)
ExtractorRaise(i) ==
    /\ pc \in {"extract", "raised"}
    /\ status[i] = "running"
    /\ status' = [status EXCEPT ![i] = "failed"]
    /\ pc' = "raised"
    /\ UNCHANGED <<state, writes, merged, ruled, aggRuns, rag, coll, seed, lastQuery, callVars>>

\* variant: the aggregator is scheduled as soon as one predecessor returned
Barrier_AnyEdge ==
    /\ pc = "extract"
    /\ \E i \in Extractors : status[i] = "ok"
    /\ IF WriteConflict(writes)
       THEN /\ pc' = "raised"
            /\ UNCHANGED <<state, merged>>
       ELSE /\ pc' = "aggregate"
            /\ state' = ApplyWrites(state, writes)
            /\ merged' = state'
    /\ UNCHANGED <<status, writes, ruled, aggRuns, rag, coll, seed, lastQuery, callVars>>

\* end of the extractor superstep: the four updates are applied
Barrier ==
    /\ pc = "extract"
    /\ \A i \in Extractors : status[i] = "ok"
    /\ IF WriteConflict(writes)
       THEN /\ pc' = "raised"
            /\ UNCHANGED <<state, merged>>
       ELSE /\ pc' = "aggregate"
            /\ state' = ApplyWrites(state, writes)
            /\ merged' = state'
    /\ UNCHANGED <<status, writes, ruled, aggRuns, rag, coll, seed, lastQuery, callVars>>

\* the aggregator superstep
Aggregator ==
    /\ pc = "aggregate"
    /\ state' = aggregator(state)
    /\ ruled' = state'
    /\ aggRuns' = aggRuns + 1
    /\ pc' = "rag"
    /\ UNCHANGED <<status, writes, merged, rag, coll, seed, lastQuery, callVars>>

\* line 114, _apply_rag_corrections: the import or RAGCorrectionStore() raises
RagStoreUnavailable ==
    /\ pc = "rag"
    /\ rag' = [outcome |-> "store_raised", queries |-> 0, correction |-> EmptyDict]
    /\ pc' = "returned"
    /\ UNCHANGED <<state, status, writes, merged, ruled, aggRuns, coll, seed, lastQuery, callVars>>

\* lines 86-87: empty input text, no lookup
RagNoText ==
    /\ pc = "rag"
    /\ state.input_text = ""
    /\ rag' = [outcome |-> "no_text", queries |-> 0, correction |-> EmptyDict]
    /\ pc' = "returned"
    /\ UNCHANGED <<state, status, writes, merged, ruled, aggRuns, coll, seed, lastQuery, callVars>>

\* variant: no handler around the lookup, the exception leaves process_fax
RagQueryRaises_Propagates ==
    /\ pc = "rag"
    /\ state.input_text # ""
    /\ rag' = [outcome |-> "query_raised", queries |-> 1, correction |-> EmptyDict]
    /\ pc' = "raised"
    /\ UNCHANGED <<state, status, writes, merged, ruled, aggRuns, coll, seed, lastQuery, callVars>>

\* line 88: store.query raises
RagQueryRaises ==
    /\ pc = "rag"
    /\ state.input_text # ""
    /\ rag' = [outcome |-> "query_raised", queries |-> 1, correction |-> EmptyDict]
    /\ pc' = "returned"
    /\ UNCHANGED <<state, status, writes, merged, ruled, aggRuns, coll, seed, lastQuery, callVars>>

\* lines 88-92: store.query returns, the correction is applied
RagQuery ==
    /\ pc = "rag"
    /\ state.input_text # ""
    /\ \E correction \in query(coll, state.input_text, DefaultThreshold) :
          /\ rag' = [outcome |-> IF correction = EmptyDict THEN "empty" ELSE "found",
                     queries |-> 1, correction |-> correction]
          /\ state' = IF correction # EmptyDict THEN ApplyCorrection(state, correction) ELSE state
    /\ pc' = "returned"
    /\ UNCHANGED <<status, writes, merged, ruled, aggRuns, coll, seed, lastQuery, callVars>>

(***************************************************************************)
(* The correction store's callers other than process_fax.                  *)
(***************************************************************************)
\* training_save_correction / a direct add(doc_text, correction)
Add(t, correction) ==
    /\ Cardinality(add(coll, seed, t, correction)) <= MaxStore
    /\ coll' = add(coll, seed, t, correction)
    /\ lastQuery' = IF coll' = coll THEN lastQuery ELSE {}
    /\ UNCHANGED <<pipeVars, seed, callVars>>

\* the serving process is restarted: the collection persists, the salt of
\* str hashes is drawn again
Restart(s) ==
    /\ pc \in {"idle", "returned", "raised"}
    /\ \A i \in Extractors : status[i] # "running"
    /\ seed' = s
    /\ s # seed
    /\ UNCHANGED <<pipeVars, coll, lastQuery, callVars>>

\* a direct query(doc_text, threshold)
Query(t, threshold) ==
    /\ \E result \in query(coll, t, threshold) :
          lastQuery' = {[text |-> t, threshold |-> threshold, result |-> result]}
    /\ UNCHANGED <<pipeVars, coll, seed, callVars>>

(***************************************************************************)
(* Specifications.                                                         *)
(***************************************************************************)
\* the pipeline, with corrections being saved while it runs
Next ==
    \/ \E t \in Texts \cup {""} : Start(t)
    \/ \E i \in Extractors : \E w \in NodeReturns(i) : ExtractorReturn(i, w)
    \/ \E i \in Extractors : ExtractorRaise(i)
    \/ Barrier
    \/ Aggregator
    \/ RagStoreUnavailable
    \/ RagNoText
    \/ RagQueryRaises
    \/ RagQuery
    \/ \E t \in Texts : \E c \in Corrections : Add(t, c)

Spec == Init /\ [][Next]_vars

\* the correction store alone: add, restart, query
NextStore ==
    \/ \E t \in Texts : \E c \in Corrections : Add(t, c)
    \/ \E s \in Seeds : Restart(s)
    \/ \E t \in Texts : \E th \in Thresholds : Query(t, th)

SpecStore == Init /\ [][NextStore]_vars

(***************************************************************************)
(* The click helpers with retries: click_patient_row_with_retries          *)
(* (talkehr_agent.py) and _click_option_by_text (helper.py).  Every        *)
(* attempt looks the elements up again, so each attempt is an action whose *)
(* input is what the page shows at that moment.  clk.clicked lists the     *)
(* elements clicked, as they were when clicked.                            *)
(***************************************************************************)
\* the largest value of the retries parameter
MaxRetries == 3

\* the rows a result list can show at an attempt: "Al Li" MRN:5,
\* "Li, Al" MRN:3, "Al Wu" MRN:4
ClickRowPool ==
    {[name |-> <<"A", "l", " ", "L", "i">>, mrn |-> <<5>>],
     [name |-> <<"L", "i", ",", " ", "A", "l">>, mrn |-> <<3>>],
     [name |-> <<"A", "l", " ", "W", "u">>, mrn |-> <<4>>]}

\* the text of a row element: the name, and the MRN on a second line
RowText(row) ==
    row.name \o (IF row.mrn = << >> THEN << >>
                 ELSE <<"\n", "M", "R", "N", ":", Digit[row.mrn[1] + 1]>>)

\* the options a panel can show at an attempt: text, is_displayed(), and
\* what a WebDriver command on the element does (ok, stale: raises
\* StaleElementReferenceException, error: raises another exception)
ClickOptionPool ==
    {[text |-> <<"L", "a", "b">>, displayed |-> TRUE, handle |-> "ok"],
     [text |-> <<"L", "a", "b">>, displayed |-> FALSE, handle |-> "ok"],
     [text |-> <<"L", "a", "b">>, displayed |-> TRUE, handle |-> "stale"],
     [text |-> <<"L", "a", "b">>, displayed |-> TRUE, handle |-> "error"],
     [text |-> <<"L", "a", "b", " ">>, displayed |-> TRUE, handle |-> "ok"],
     [text |-> <<"L", "a", "b", "s">>, displayed |-> TRUE, handle |-> "ok"]}

\* str.strip()
RECURSIVE strip(_)
strip(s) ==
    IF s = << >> THEN s
    ELSE IF IsSpace(Head(s)) THEN strip(Tail(s))
    ELSE IF IsSpace(s[Len(s)]) THEN strip(SubSeq(s, 1, Len(s) - 1))
    ELSE s

\* the call returns False at once when retries is 0, else the loop starts
Enter(fn, caller, idx, text, retries) ==
    [pc |-> IF retries = 0 THEN "done" ELSE "running", fn |-> fn, caller |-> caller,
     idx |-> idx, text |-> text, retries |-> retries, attempt |-> 0, clicked |-> << >>,
     result |-> IF retries = 0 THEN "False" ELSE "<running>"]

\* an attempt that clicked nothing: the next attempt, or False after the last
Failed(c) ==
    IF c.attempt + 1 = c.retries
    THEN [c EXCEPT !.attempt = @ + 1, !.pc = "done", !.result = "False"]
    ELSE [c EXCEPT !.attempt = @ + 1]

\* an attempt that clicked elem: return True
Clicked(c, elem) ==
    [c EXCEPT !.attempt = @ + 1, !.clicked = Append(@, elem), !.pc = "done", !.result = "True"]

\* select_patient lines 165 and 212: the helper is called with the index
\* and the name of the row chosen in the scoring pass
SelectPatientClicks(patient_name, rows) ==
    \E chosen \in {Chosen(patient_name, rows)} :
        /\ clk.pc = "idle"
        /\ chosen # 0
        /\ clk' = Enter("click_patient_row_with_retries", "select_patient",
                        chosen - 1, rows[chosen].name, 3)
        /\ UNCHANGED <<baseVars, dob, match, sel, menu, norm, run, adds, app>>

\* a call of click_patient_row_with_retries(driver, idx, expected_text, retries)
ClickPatientRow(idx, expected_text, retries) ==
    /\ clk.pc = "idle"
    /\ clk' = Enter("click_patient_row_with_retries", "", idx, expected_text, retries)
    /\ UNCHANGED <<baseVars, dob, match, sel, menu, norm, run, adds, app>>

\* lines 24-30: the element of the attempt, 0 when there is none
RowElement(rows, idx, expected_text) ==
    IF idx < Len(rows) THEN idx + 1
    ELSE IF \E i \in 1..Len(rows) : Contains(lower(expected_text), lower(RowText(rows[i])))
         THEN CHOOSE i \in 1..Len(rows) :
                  /\ Contains(lower(expected_text), lower(RowText(rows[i])))
                  /\ \A j \in 1..(i - 1) : ~Contains(lower(expected_text), lower(RowText(rows[j])))
         ELSE 0

\* lines 19-44, one attempt: rows is what find_elements returns now; raises
\* says that a WebDriver command of the attempt raises before a click lands
PatientRowAttempt(rows, raises) ==
    \E elem \in {RowElement(rows, clk.idx, clk.text)} :
        /\ clk.pc = "running"
        /\ clk.fn = "click_patient_row_with_retries"
        /\ clk' = IF raises \/ elem = 0 THEN Failed(clk) ELSE Clicked(clk, rows[elem])
        /\ UNCHANGED <<baseVars, dob, match, sel, menu, norm, run, adds, app>>

\* a call of _click_option_by_text(driver, target_text, retries)
ClickOptionByText(target_text, retries) ==
    /\ clk.pc = "idle"
    /\ clk' = Enter("_click_option_by_text", "", 0, target_text, retries)
    /\ UNCHANGED <<baseVars, dob, match, sel, menu, norm, run, adds, app>>

\* variant: the first displayed option is clicked
RECURSIVE OptionElement_AnyText(_, _, _)
OptionElement_AnyText(options, i, target_text) ==
    IF i > Len(options) THEN 0
    ELSE IF options[i].handle = "ok" /\ options[i].displayed THEN i
    ELSE OptionElement_AnyText(options, i + 1, target_text)

\* lines 101-112: the option the loop clicks, 0 when it clicks none.  A
\* stale element is skipped, another exception ends the attempt.
RECURSIVE OptionElement(_, _, _)
OptionElement(options, i, target_text) ==
    IF i > Len(options) THEN 0
    ELSE IF options[i].handle = "error" THEN 0
    ELSE IF options[i].handle = "stale" THEN OptionElement(options, i + 1, target_text)
    ELSE IF options[i].displayed /\ strip(options[i].text) = target_text THEN i
    ELSE OptionElement(options, i + 1, target_text)

\* lines 99-115, one attempt: options is what find_elements returns now;
\* raises says that find_elements itself raises
OptionAttempt(options, raises) ==
    \E elem \in {OptionElement(options, 1, clk.text)} :
        /\ clk.pc = "running"
        /\ clk.fn = "_click_option_by_text"
        /\ clk' = IF raises \/ elem = 0 THEN Failed(clk) ELSE Clicked(clk, options[elem])
        /\ UNCHANGED <<baseVars, dob, match, sel, menu, norm, run, adds, app>>

\* the lists of at most two distinct elements of a pool
PairsOf(pool) ==
    {<< >>} \cup {<<x>> : x \in pool} \cup {l \in pool \X pool : l[1] # l[2]}

NextClick ==
    \/ \E t \in TargetNames : \E rows \in PairsOf(ClickRowPool) : SelectPatientClicks(t, rows)
    \/ \E idx \in 0..2 : \E row \in ClickRowPool : \E retries \in 0..MaxRetries :
          ClickPatientRow(idx, row.name, retries)
    \/ \E rows \in PairsOf(ClickRowPool) : \E raises \in BOOLEAN : PatientRowAttempt(rows, raises)
    \/ \E o \in ClickOptionPool : \E retries \in 0..MaxRetries : ClickOptionByText(strip(o.text), retries)
    \/ \E options \in PairsOf(ClickOptionPool) : \E raises \in BOOLEAN : OptionAttempt(options, raises)

SpecClick == Init /\ [][NextClick]_vars

(***************************************************************************)
(* frontend/client.py: the worker threads of the desktop client.  The      *)
(* button handlers run one at a time on the Tk main thread; each thread    *)
(* they start runs on its own.  app.at[k] is the position of thread k:     *)
(* none, build, loop, check, run (inside _run_once), dead.                 *)
(***************************************************************************)
\* Thread.is_alive()
is_alive(k) == app.at[k] \notin {"none", "dead"}

\* lines 294-321: nothing when the Normal thread is alive, else a new event
\* and a new thread
start_normal ==
    /\ app.clicks < MaxClicks
    /\ app' = IF app.normal_thread # 0 /\ is_alive(app.normal_thread)
              THEN [app EXCEPT !.clicks = @ + 1]
              ELSE [app EXCEPT !.clicks = @ + 1, !.stop_normal = "clear",
                               !.kind[app.clicks + 1] = "normal", !.at[app.clicks + 1] = "build",
                               !.normal_thread = app.clicks + 1]
    /\ UNCHANGED <<baseVars, dob, match, sel, menu, norm, run, adds, clk>>

\* lines 323-326
stop_normal ==
    /\ app.stop_normal # "unset"
    /\ app' = [app EXCEPT !.stop_normal = "set"]
    /\ UNCHANGED <<baseVars, dob, match, sel, menu, norm, run, adds, clk>>

\* lines 303-304: the Normal thread builds its own driver and bot, or
\* build_driver raises and the thread ends
NormalBuild(k, built) ==
    /\ app.kind[k] = "normal" /\ app.at[k] = "build"
    /\ app' = [app EXCEPT !.at[k] = IF built THEN "loop" ELSE "dead"]
    /\ UNCHANGED <<baseVars, dob, match, sel, menu, norm, run, adds, clk>>

\* lines 305-306: the loop test, then into _run_once; the thread ends when
\* the event is set
NormalLoop(k) ==
    /\ app.kind[k] = "normal" /\ app.at[k] = "loop"
    /\ app' = [app EXCEPT !.at[k] = IF app.stop_normal = "set" THEN "dead" ELSE "run"]
    /\ UNCHANGED <<baseVars, dob, match, sel, menu, norm, run, adds, clk>>

\* lines 306-311: _run_once returns True (next iteration), or returns False
\* or raises (the thread ends)
NormalRunReturns(k, ok) ==
    /\ app.kind[k] = "normal" /\ app.at[k] = "run"
    /\ app' = [app EXCEPT !.at[k] = IF ok THEN "loop" ELSE "dead"]
    /\ UNCHANGED <<baseVars, dob, match, sel, menu, norm, run, adds, clk>>

\* lines 339-352: every click starts a thread
training_next ==
    /\ app.clicks < MaxClicks
    /\ app' = [app EXCEPT !.clicks = @ + 1, !.kind[app.clicks + 1] = "training",
                          !.at[app.clicks + 1] = "check"]
    /\ UNCHANGED <<baseVars, dob, match, sel, menu, norm, run, adds, clk>>

\* line 343: the test of self._driver
TrainingCheck(k) ==
    /\ app.kind[k] = "training" /\ app.at[k] = "check"
    /\ app' = [app EXCEPT !.at[k] = IF app.driver = 0 THEN "build" ELSE "run"]
    /\ UNCHANGED <<baseVars, dob, match, sel, menu, norm, run, adds, clk>>

\* lines 344-346: build_driver returns and self._driver, self._bot are
\* assigned, or it raises and the thread ends
TrainingBuild(k, built) ==
    /\ app.kind[k] = "training" /\ app.at[k] = "build"
    /\ app' = IF built
              THEN [app EXCEPT !.driver = k, !.built = @ + 1, !.at[k] = "run"]
              ELSE [app EXCEPT !.at[k] = "dead"]
    /\ UNCHANGED <<baseVars, dob, match, sel, menu, norm, run, adds, clk>>

\* lines 346-351: _run_once returns or raises
TrainingRunReturns(k) ==
    /\ app.kind[k] = "training" /\ app.at[k] = "run"
    /\ app' = [app EXCEPT !.at[k] = "dead"]
    /\ UNCHANGED <<baseVars, dob, match, sel, menu, norm, run, adds, clk>>

NextApp ==
    \/ start_normal
    \/ stop_normal
    \/ \E k \in 1..MaxClicks : \E built \in BOOLEAN : NormalBuild(k, built)
    \/ \E k \in 1..MaxClicks : NormalLoop(k)
    \/ \E k \in 1..MaxClicks : \E ok \in BOOLEAN : NormalRunReturns(k, ok)
    \/ training_next
    \/ \E k \in 1..MaxClicks : TrainingCheck(k)
    \/ \E k \in 1..MaxClicks : \E built \in BOOLEAN : TrainingBuild(k, built)
    \/ \E k \in 1..MaxClicks : TrainingRunReturns(k)

SpecApp == Init /\ [][NextApp]_vars

(***************************************************************************)
(* Two requests to /training/save_correction for the same document text,   *)
(* served by two threads of the server process.  Each thread builds its    *)
(* store object, computes the embedding and then hands its record to the   *)
(* index; adds.order is the order in which the records reach the index.    *)
(***************************************************************************)
AddThreads == {1, 2}

\* both requests arrive
SaveCorrections(t, f1, f2) ==
    /\ adds.pc = "idle"
    /\ adds' = [pc |-> "running", text |-> t, fields |-> <<f1, f2>>,
                at |-> <<"called", "called">>, order |-> << >>]
    /\ UNCHANGED <<baseVars, dob, match, sel, menu, norm, run, clk, app>>

\* line 18: the thread computes the embedding
AddEmbed(i) ==
    /\ adds.pc = "running"
    /\ adds.at[i] = "called"
    /\ adds' = [adds EXCEPT !.at[i] = "embedded"]
    /\ UNCHANGED <<baseVars, dob, match, sel, menu, norm, run, clk, app>>

\* lines 19-24: the thread's record reaches the index
AddIndex(i) ==
    /\ adds.pc = "running"
    /\ adds.at[i] = "embedded"
    /\ coll' = add(coll, seed, adds.text, adds.fields[i])
    /\ adds' = [adds EXCEPT !.at[i] = "done", !.order = Append(@, i)]
    /\ UNCHANGED <<pipeVars, seed, lastQuery, dob, match, sel, menu, norm, run, clk, app>>

\* corrections saved earlier, then the two concurrent requests
NextAdds ==
    \/ \E t \in Texts : \E correction \in Corrections : adds.pc = "idle" /\ Add(t, correction)
    \/ \E t \in Texts : \E f1 \in Corrections : \E f2 \in Corrections : SaveCorrections(t, f1, f2)
    \/ \E i \in AddThreads : AddEmbed(i)
    \/ \E i \in AddThreads : AddIndex(i)

SpecAdds == Init /\ [][NextAdds]_vars

\* the service: process_fax calls, corrections being saved and direct
\* lookups, in any order
NextServer ==
    \/ Next
    \/ \E t \in Texts : Query(t, DefaultThreshold)

SpecServer == Init /\ [][NextServer]_vars

(***************************************************************************)
(* Calls of try_parse_dob.                                                 *)
(***************************************************************************)
TryParseDob(raw_dob) ==
    /\ dob.result = "<no call>"
    /\ dob' = [raw |-> raw_dob, result |-> try_parse_dob(raw_dob)]
    /\ UNCHANGED <<baseVars, match, sel, menu, uiVars>>

NextDate == \E raw_dob \in RawDobs : TryParseDob(raw_dob)

SpecDate == Init /\ [][NextDate]_vars

(***************************************************************************)
(* Calls of strong_enough_match.                                           *)
(***************************************************************************)
StrongEnoughMatch(target_full, candidate_full) ==
    /\ ~match.called
    /\ match' = [called |-> TRUE, target |-> target_full, candidate |-> candidate_full,
                 result |-> strong_enough_match(target_full, candidate_full)]
    /\ UNCHANGED <<baseVars, dob, sel, menu, uiVars>>

NextMatch == \E t \in PatientNames : \E c \in PatientNames : StrongEnoughMatch(t, c)

SpecMatch == Init /\ [][NextMatch]_vars

(***************************************************************************)
(* Calls of select_patient: the rows the drop-down shows, whether the      *)
(* drop-down appeared, and whether click_patient_row_with_retries managed  *)
(* to click (the rows are the same when it looks them up again).           *)
(***************************************************************************)
SelectPatient(patient_name, rows) ==
    \E chosen \in {Chosen(patient_name, rows)} : \E dropdown \in BOOLEAN : \E click \in BOOLEAN :
        /\ ~sel.called
        /\ sel' = [called |-> TRUE, patient_name |-> patient_name, rows |-> rows,
                   dropdown |-> dropdown,
                   chosen |-> IF dropdown THEN chosen ELSE 0,
                   clicked |-> IF dropdown /\ click THEN chosen ELSE 0,
                   returned |-> dropdown /\ click /\ chosen # 0]
        /\ UNCHANGED <<baseVars, dob, match, menu, uiVars>>

NextPatient == \E t \in TargetNames : \E rows \in ListsOf(RowPool) : SelectPatient(t, rows)

SpecPatient == Init /\ [][NextPatient]_vars

(***************************************************************************)
(* select_doc_type: typing, the polling loop, the choice.                  *)
(***************************************************************************)
\* lines 230-242: the text is typed, or typing fails and False is returned
SelectDocType(doc_type, opts, clickable, max_wait, accept_first_if_no_match, typed) ==
    /\ menu.pc = "idle"
    /\ menu' = [NoMenu EXCEPT !.pc = IF typed THEN "poll" ELSE "done",
                              !.exit = IF typed THEN "" ELSE "not typed",
                              !.doc_type = doc_type, !.opts = opts, !.clickable = clickable,
                              !.max_wait = max_wait,
                              !.accept_first_if_no_match = accept_first_if_no_match]
    /\ UNCHANGED <<baseVars, dob, match, sel, uiVars>>

\* line 244
TimedOut == menu.max_wait # << >> /\ menu.elapsed > menu.max_wait[1]

\* lines 244-246
GiveUp ==
    /\ menu.pc = "poll"
    /\ TimedOut
    /\ menu' = [menu EXCEPT !.pc = "done", !.exit = "gave up", !.returned = FALSE]
    /\ UNCHANGED <<baseVars, dob, match, sel, uiVars>>

\* lines 247-249: no option is visible, the loop goes on
NothingVisible ==
    /\ menu.pc = "poll"
    /\ ~TimedOut
    /\ menu.opts = << >>
    /\ menu' = [menu EXCEPT !.pc = "sleep"]
    /\ UNCHANGED <<baseVars, dob, match, sel, uiVars>>

\* line 250: one poll period passes, back to the head of the loop
Sleep ==
    /\ menu.pc = "sleep"
    /\ menu' = [menu EXCEPT !.pc = "poll",
                            !.elapsed = IF menu.elapsed < MaxElapsed THEN menu.elapsed + 1 ELSE MaxElapsed]
    /\ UNCHANGED <<baseVars, dob, match, sel, uiVars>>

\* lines 247-249: the loop is left with options to look at
OptionsVisible == menu.pc = "poll" /\ ~TimedOut /\ menu.opts # << >>

\* lines 247-277: options are visible
Resolve ==
    /\ OptionsVisible
    /\ \E d \in {Decide(menu.doc_type, menu.opts, menu.clickable, menu.accept_first_if_no_match)} :
           menu' = [menu EXCEPT !.pc = "done", !.exit = "resolved",
                                !.selected = d.selected, !.ground = d.ground,
                                !.returned = d.returned]
    /\ UNCHANGED <<baseVars, dob, match, sel, uiVars>>

\* the click outcomes followed: every click works, none does, all but the
\* one on the first option do
Clickables(opts) ==
    LET texts == {opts[i] : i \in 1..Len(opts)}
    IN  {texts, {}} \cup (IF opts = << >> THEN {} ELSE {texts \ {opts[1]}})

NextMenu ==
    \/ \E doc_type \in DocTypes : \E opts \in ListsOf(OptionPool) : \E clickable \in Clickables(opts) :
         \E max_wait \in MaxWaits : \E accept \in BOOLEAN : \E typed \in BOOLEAN :
            SelectDocType(doc_type, opts, clickable, max_wait, accept, typed)
    \/ GiveUp
    \/ NothingVisible
    \/ Sleep
    \/ Resolve

SpecMenu == Init /\ [][NextMenu]_vars

\* the loop of lines 243-250 keeps running and the call goes on once it ends
\* (weak fairness of Resolve is written out: Resolve is enabled exactly when
\* OptionsVisible holds, and every Resolve step changes menu.pc)
SpecMenuFair ==
    /\ SpecMenu
    /\ WF_vars(GiveUp)
    /\ WF_vars(NothingVisible)
    /\ WF_vars(Sleep)
    /\ ([]<>~OptionsVisible \/ []<><<Resolve>>_vars)

(***************************************************************************)
(* Calls of normalize_name, and of normalize_name on what it returned.     *)
(***************************************************************************)
NormalizeName(text) ==
    /\ ~norm.called
    /\ norm' = [called |-> TRUE, text |-> text, once |-> normalize_name(text),
                twice |-> normalize_name(normalize_name(text))]
    /\ UNCHANGED <<baseVars, dob, match, sel, menu, run, adds, clk, app>>

NextNorm == \E text \in NameTexts : NormalizeName(text)

SpecNorm == Init /\ [][NextNorm]_vars

(***************************************************************************)
(* The legacy pipeline (src/process_fax.py): the same graph of extractors  *)
(* and aggregator, and no correction stage.                                *)
(***************************************************************************)
\* what the legacy process_fax returns for the extractor outputs of this
\* call: the state the graph ends with, which is the aggregator's
legacy_process_fax == aggregator(merged)

(***************************************************************************)
(* One filing run: run_once (main.py) and App._run_once (client.py).       *)
(* run.steps records every bot method called with its outcome.             *)
(***************************************************************************)
\* the run after the call of a bot method
Called(r, step, outcome) == [r EXCEPT !.steps = Append(@, <<step, outcome>>)]

\* the run after a return statement
Return(r, value) == [r EXCEPT !.pc = "done", !.ret = value]

\* an exception inside the run: run_once catches it and returns False
\* (main.py 94-97), _run_once has no handler and the exception leaves it
Raise(r) == IF r.who = "run_once" THEN Return(r, "False") ELSE Return(r, "raised")

RunOnce(who) ==
    /\ run.pc = "idle"
    /\ run' = [run EXCEPT !.pc = "get_url", !.who = who]
    /\ UNCHANGED <<baseVars, dob, match, sel, menu, norm, adds, clk, app>>

\* bot.get_url(): the link of the open fax, or None
RunGetUrl(link) ==
    /\ run.pc = "get_url"
    /\ run' = IF link # None
              THEN [Called(run, "get_url", link) EXCEPT !.pc = "process"]
              ELSE Return(Called(run, "get_url", link), "False")
    /\ UNCHANGED <<baseVars, dob, match, sel, menu, norm, adds, clk, app>>

\* variant: the required fields are not tested
RunProcess_NoGate(response) ==
    /\ run.pc = "process"
    /\ run' = [run EXCEPT !.response = response, !.pc = "select_patient"]
    /\ UNCHANGED <<baseVars, dob, match, sel, menu, norm, adds, clk, app>>

\* convert_document + process_fax, or the POST to /process_url, answer with
\* the record; then the test of the required fields
RunProcess(response) ==
    /\ run.pc = "process"
    /\ run' = [run EXCEPT !.response = response,
                          !.pc = IF ~all(<<response.patient_name, response.doc_type, response.provider_name>>)
                                 THEN "gate_cancel" ELSE "select_patient"]
    /\ UNCHANGED <<baseVars, dob, match, sel, menu, norm, adds, clk, app>>

\* the conversion, the pipeline or the request raises
RunProcessRaises ==
    /\ run.pc = "process"
    /\ run' = Raise(run)
    /\ UNCHANGED <<baseVars, dob, match, sel, menu, norm, adds, clk, app>>

\* required fields missing: bot.cancel_button() clicks Cancel, or its wait
\* for the button raises
RunGateCancel(outcome) ==
    /\ run.pc = "gate_cancel"
    /\ run' = IF outcome = "raised" /\ run.who = "run_once"
              THEN Raise(Called(run, "cancel_button", outcome))
              ELSE Return(Called(run, "cancel_button", outcome), "True")
    /\ UNCHANGED <<baseVars, dob, match, sel, menu, norm, adds, clk, app>>

RunSelectPatient(outcome) ==
    /\ run.pc = "select_patient"
    /\ run' = CASE outcome = "True" -> [Called(run, "select_patient", outcome) EXCEPT !.pc = "select_doc_type"]
                [] outcome = "False" -> [Called(run, "select_patient", outcome) EXCEPT !.pc = "patient_cancel"]
                [] outcome = "raised" -> Raise(Called(run, "select_patient", outcome))
    /\ UNCHANGED <<baseVars, dob, match, sel, menu, norm, adds, clk, app>>

\* patient selection failed: cancel and go on to the next fax
RunPatientCancel(outcome) ==
    /\ run.pc = "patient_cancel"
    /\ run' = Return(Called(run, "cancel_button", outcome), IF outcome = "raised" THEN "False" ELSE "True")
    /\ UNCHANGED <<baseVars, dob, match, sel, menu, norm, adds, clk, app>>

RunSelectDocType(outcome) ==
    /\ run.pc = "select_doc_type"
    /\ run' = IF outcome = "True"
              THEN [Called(run, "select_doc_type", outcome) EXCEPT
                        !.pc = IF Truthy(run.response.doc_subtype) THEN "select_doc_sub_type"
                               ELSE "select_assigned_to"]
              ELSE Return(Called(run, "select_doc_type", outcome), "False")
    /\ UNCHANGED <<baseVars, dob, match, sel, menu, norm, adds, clk, app>>

\* variant: only False stops the run
RunSelectDocSubType_NoneOk(outcome) ==
    /\ run.pc = "select_doc_sub_type"
    /\ run' = CASE outcome \in {"True", "None"} -> [Called(run, "select_doc_sub_type", outcome) EXCEPT !.pc = "select_assigned_to"]
                [] outcome = "False" -> Return(Called(run, "select_doc_sub_type", outcome), "False")
                [] outcome = "raised" -> Raise(Called(run, "select_doc_sub_type", outcome))
    /\ UNCHANGED <<baseVars, dob, match, sel, menu, norm, adds, clk, app>>

\* select_doc_sub_type returns True, False or None, or its first wait raises
RunSelectDocSubType(outcome) ==
    /\ run.pc = "select_doc_sub_type"
    /\ run' = CASE outcome = "True" -> [Called(run, "select_doc_sub_type", outcome) EXCEPT !.pc = "select_assigned_to"]
                [] outcome \in {"False", "None"} -> Return(Called(run, "select_doc_sub_type", outcome), "False")
                [] outcome = "raised" -> Raise(Called(run, "select_doc_sub_type", outcome))
    /\ UNCHANGED <<baseVars, dob, match, sel, menu, norm, adds, clk, app>>

RunSelectAssignedTo(outcome) ==
    /\ run.pc = "select_assigned_to"
    /\ run' = IF outcome = "True"
              THEN [Called(run, "select_assigned_to", outcome) EXCEPT !.pc = "add_comments"]
              ELSE Return(Called(run, "select_assigned_to", outcome), "False")
    /\ UNCHANGED <<baseVars, dob, match, sel, menu, norm, adds, clk, app>>

RunAddComments(outcome) ==
    /\ run.pc = "add_comments"
    /\ run' = IF outcome = "True"
              THEN [Called(run, "add_comments", outcome) EXCEPT !.pc = "save_button"]
              ELSE Return(Called(run, "add_comments", outcome), "False")
    /\ UNCHANGED <<baseVars, dob, match, sel, menu, norm, adds, clk, app>>

\* bot.save_button() clicks Save, or its wait for the button raises
RunSaveButton(outcome) ==
    /\ run.pc = "save_button"
    /\ run' = IF outcome = "clicked"
              THEN Return(Called(run, "save_button", outcome), "True")
              ELSE Raise(Called(run, "save_button", outcome))
    /\ UNCHANGED <<baseVars, dob, match, sel, menu, norm, adds, clk, app>>

NextRun ==
    \/ \E who \in {"run_once", "_run_once"} : RunOnce(who)
    \/ \E link \in {None, "https://fax/1.pdf"} : RunGetUrl(link)
    \/ \E response \in RunRecords : RunProcess(response)
    \/ RunProcessRaises
    \/ \E outcome \in {"clicked", "raised"} : RunGateCancel(outcome)
    \/ \E outcome \in {"True", "False", "raised"} : RunSelectPatient(outcome)
    \/ \E outcome \in {"clicked", "raised"} : RunPatientCancel(outcome)
    \/ \E outcome \in {"True", "False"} : RunSelectDocType(outcome)
    \/ \E outcome \in {"True", "False", "None", "raised"} : RunSelectDocSubType(outcome)
    \/ \E outcome \in {"True", "False"} : RunSelectAssignedTo(outcome)
    \/ \E outcome \in {"True", "False"} : RunAddComments(outcome)
    \/ \E outcome \in {"clicked", "raised"} : RunSaveButton(outcome)

SpecRun == Init /\ [][NextRun]_vars

\* the answer of the /process endpoint to the call of process_fax:
\* ProcessResult(...) validates every field as str, any exception is HTTP 500
process ==
    IF pc = "returned" /\ state.date_of_birth # None
    THEN [status_code |-> 200,
          body |-> [md |-> state.input_text, date_of_birth |-> state.date_of_birth,
                    patient_name |-> state.patient_name, provider_name |-> state.provider_name,
                    doc_type |-> state.doc_type, doc_subtype |-> state.doc_subtype,
                    comment |-> state.comment]]
    ELSE [status_code |-> 500, body |-> EmptyDict]

(***************************************************************************)
(* Vocabulary of the properties.                                           *)
(***************************************************************************)
\* the fields each extractor owns
Owned(i) ==
    CASE i = 1 -> {"date_of_birth", "patient_name", "provider_name"}
      [] i = 2 -> {"doc_type"}
      [] i = 3 -> {"doc_subtype"}
      [] i = 4 -> {"comment"}

\* the empty string of a field
EmptyOf(k) == IF k = "provider_name" THEN NoName ELSE ""

\* the call has ended and no node thread is left
CallOver == pc \in {"returned", "raised"} /\ \A i \in Extractors : status[i] \in {"ok", "failed"}

\* the provider name the rule-override stage gives a table label
ForcedName(label) == BlockedRule([init_agent_state EXCEPT !.provider_name = mapping[label]]).provider_name

\* some blocked substring occurs in the name
Blocked(name) == \E t \in tokens : Contains(t, casefold(name))

(***************************************************************************)
(* C1.  For every subset of the four extractors that fails, process_fax    *)
(* still returns a record: the fields owned by a failed extractor are      *)
(* empty, the fields owned by a successful one hold the value it returned  *)
(* (before overrides).  The code does not do this: an exception of one     *)
(* node ends the call with that exception.                                 *)
(***************************************************************************)
C1_FailedExtractorIsNotFatal ==
    CallOver =>
        /\ pc = "returned"
        /\ \A i \in Extractors : \A k \in Owned(i) :
              merged[k] = IF status[i] = "failed" THEN EmptyOf(k) ELSE writes[i][k]

(***************************************************************************)
(* C2.  Fail-open: when constructing the correction store or its query     *)
(* raises, process_fax returns normally and the record it returns equals,  *)
(* field for field, the record the rule-override stage produced.           *)
(***************************************************************************)
C2_FailOpen ==
    rag.outcome \in {"store_raised", "query_raised"} =>
        /\ pc = "returned"
        /\ \A k \in Fields : state[k] = ruled[k]

\* the query raised although the store holds a correction that would have
\* changed the record
C2_Witness ==
    /\ pc = "returned"
    /\ rag.outcome = "query_raised"
    /\ \E c \in query(coll, state.input_text, DefaultThreshold) : ApplyCorrection(ruled, c) # ruled

(***************************************************************************)
(* C3.  As claimed: every returned record whose category is a label of the *)
(* lookup table has the provider name the table (or the blocked-substring  *)
(* rule after it) forces, whichever stage set the category.  Violated when *)
(* the correction stage sets the category.                                 *)
(***************************************************************************)
C3_Original ==
    (pc = "returned" /\ state.doc_type \in DOMAIN mapping) =>
        state.provider_name = ForcedName(state.doc_type)

(***************************************************************************)
(* C3, amended.  Every returned record for which the category the category *)
(* extractor returned is a label of the lookup table has the provider name *)
(* forced for that label, whatever name the identity extractor returned    *)
(* and whatever the correction stage does to the category afterwards.      *)
(***************************************************************************)
C3_ForcedProvider ==
    (pc = "returned" /\ writes[2].doc_type \in DOMAIN mapping) =>
        state.provider_name = ForcedName(writes[2].doc_type)

\* a table label from the extractor, another name from the identity
\* extractor, and a correction that then replaced the category
C3_Witness ==
    /\ pc = "returned"
    /\ writes[2].doc_type = "Prior Authorization"
    /\ writes[1].provider_name = DrLee
    /\ rag.outcome = "found"
    /\ state.doc_type = "Labs"
    /\ state.provider_name = MedicalARecords

C5_CorrectionFrame ==
    pc = "returned" =>
        /\ \A k \in Fields \ DOMAIN rag.correction : state[k] = ruled[k]
        /\ rag.outcome # "found" => \A k \in Fields : state[k] = ruled[k]

\* a correction without a subcategory value was found and changed the
\* category alone
C5_Witness ==
    /\ pc = "returned"
    /\ rag.outcome = "found"
    /\ rag.correction = CorrTypeOnly
    /\ state.doc_type # ruled.doc_type
    /\ state.input_text = ruled.input_text
    /\ state.input_text # ""

(***************************************************************************)
(* Vocabulary of the store properties.                                     *)
(***************************************************************************)
\* similarity of a stored record to a query vector: 1 minus the distance
Similarity(e, x) == 100 - Distance(e.emb, x)

\* the stored records for a document text
EntriesFor(c, t) == {e \in c : e.doc = t}

\* the stored records whose vector is that of the text
SameVector(c, t) == {e \in c : e.emb = _embed(t)}

(***************************************************************************)
(* C6.  As claimed: query returns the overrideFields of the nearest stored *)
(* entry if and only if its similarity (1 minus its distance) is at least  *)
(* the threshold, the boundary similarity = threshold included; otherwise, *)
(* and on an empty store, the empty mapping.  The code's test is strict.   *)
(***************************************************************************)
C6_ThresholdInclusive ==
    \A q \in lastQuery :
        IF coll = {}
        THEN q.result = EmptyDict
        ELSE \E hit \in Nearest(coll, _embed(q.text)) :
                q.result = IF Similarity(hit, _embed(q.text)) >= q.threshold
                           THEN json_loads(hit.meta)
                           ELSE EmptyDict

(***************************************************************************)
(* C7.  As claimed: last write wins for identical text.  Whenever the      *)
(* store already holds an entry for t (an earlier add(t, f1), possibly by  *)
(* a process since restarted), add(t, f2) leaves exactly one entry for t   *)
(* and query(t) returns f2.  The code keeps the first write, and after a   *)
(* restart stores a second entry.                                          *)
(***************************************************************************)
C7_LastWriteWins ==
    \A t \in Texts : \A f2 \in Corrections :
        EntriesFor(coll, t) # {} =>
            /\ Cardinality(EntriesFor(add(coll, seed, t, f2), t)) = 1
            /\ query(add(coll, seed, t, f2), t, DefaultThreshold) = {f2}

(***************************************************************************)
(* C8.  As claimed: after add(t, f), whatever entries for different texts  *)
(* the store holds, query(t, 0.99) returns exactly f; a query whose        *)
(* nearest entry has a similarity below the threshold returns the empty    *)
(* mapping.  Violated by an entry for a different text with t's vector.    *)
(***************************************************************************)
C8_Original ==
    \A q \in lastQuery :
        q.threshold = 99 =>
            /\ \A e \in coll : EntriesFor(coll, q.text) = {e} => q.result = json_loads(e.meta)
            /\ (\A e \in coll : Similarity(e, _embed(q.text)) < 99) => q.result = EmptyDict

(***************************************************************************)
(* C8, amended.  After add(t, f) on a store that holds no entry with the   *)
(* embedding vector of t, and while the entry for t stays the only one     *)
(* with that vector, query(t, 0.99) returns exactly f, whatever other      *)
(* entries the store holds; a query whose nearest entry has a similarity   *)
(* below the threshold returns the empty mapping.                          *)
(***************************************************************************)
C8_RoundTrip ==
    /\ \A t \in Texts : \A f \in Corrections :
          SameVector(coll, t) = {} => query(add(coll, seed, t, f), t, 99) = {f}
    /\ \A q \in lastQuery :
        q.threshold = 99 =>
            /\ \A e \in coll :
                  (e.doc = q.text /\ SameVector(coll, q.text) = {e}) => q.result = json_loads(e.meta)
            /\ (\A e \in coll : Similarity(e, _embed(q.text)) < 99) => q.result = EmptyDict

\* query("A", 0.99) gave back the correction added for "A" while the store
\* also holds an entry for another text
C8_Witness ==
    /\ lastQuery = {[text |-> "A", threshold |-> 99, result |-> CorrBoth]}
    /\ \E e \in coll : e.doc = "A" /\ json_loads(e.meta) = CorrBoth /\ SameVector(coll, "A") = {e}
    /\ \E o \in coll : o.doc = "C"

(***************************************************************************)
(* C9.  Stage ordering in one process_fax call: the aggregator starts only *)
(* after all four extractors have finished and runs exactly once (never    *)
(* more, and once in every call that returns); the correction memory is    *)
(* queried at most once and only after the aggregator has finished; no     *)
(* extractor runs once the aggregator has started.                         *)
(***************************************************************************)
C9_StageOrder ==
    /\ aggRuns <= 1
    /\ pc \in {"aggregate", "rag", "returned"} => \A i \in Extractors : status[i] = "ok"
    /\ pc \in {"rag", "returned"} <=> aggRuns = 1
    /\ rag.queries <= 1
    /\ rag.outcome # "none" => (aggRuns = 1 /\ pc = "returned")

\* a call that went through the three stages, the lookup included
C9_Witness ==
    /\ pc = "returned"
    /\ aggRuns = 1
    /\ rag.queries = 1
    /\ rag.outcome = "found"

(***************************************************************************)
(* C10.  End-to-end merge: when the four extractors succeed, the category  *)
(* is no table label, the provider name has no blocked substring and no    *)
(* correction is found, the returned record holds exactly the values the   *)
(* extractors returned, in whatever order they completed; no two           *)
(* extractors write the same field and the six fields are all written.     *)
(***************************************************************************)
C10_EndToEndMerge ==
    (/\ pc = "returned"
     /\ writes[2].doc_type \notin DOMAIN mapping
     /\ ~Blocked(writes[1].provider_name)
     /\ rag.outcome # "found") =>
        /\ \A i \in Extractors : \A k \in DOMAIN writes[i] : state[k] = writes[i][k]
        /\ \A i, j \in Extractors : i # j => DOMAIN writes[i] \cap DOMAIN writes[j] = {}
        /\ UNION {DOMAIN writes[i] : i \in Extractors} = Fields \ {"input_text"}

\* four bundles merged unchanged, the lookup having found nothing near
C10_Witness ==
    /\ pc = "returned"
    /\ rag.outcome = "empty"
    /\ coll # {}
    /\ state.date_of_birth = "01/02/1990"
    /\ state.patient_name = "John Doe"
    /\ state.provider_name = DrLee
    /\ state.doc_type = "Labs"
    /\ state.doc_subtype = "Quest"
    /\ state.comment = "- follow up in two weeks"

(***************************************************************************)
(* C11.  Category rule: right after the rule-override stage, a category    *)
(* that is a key of the lookup table has forced the provider name to the   *)
(* mapped value (unless the blocked-substring rule then replaced it by the *)
(* fallback name), whatever name the identity extractor returned; for a    *)
(* category that is no key the category rule leaves the name unchanged.    *)
(***************************************************************************)
C11_CategoryRule ==
    pc \in {"rag", "returned"} =>
        IF merged.doc_type \in DOMAIN mapping
        THEN /\ ruled.provider_name \in {mapping[merged.doc_type], AsimAli}
             /\ ruled.provider_name = AsimAli => Blocked(mapping[merged.doc_type])
        ELSE /\ CategoryRule(merged).provider_name = merged.provider_name
             /\ ruled.provider_name \in {merged.provider_name, AsimAli}
             /\ ruled.provider_name # merged.provider_name => Blocked(merged.provider_name)

\* the table value replaced the name the extractor had returned
C11_Witness ==
    /\ pc = "rag"
    /\ merged.doc_type = "Forms"
    /\ merged.provider_name = DrLee
    /\ ruled.provider_name = FormsAStaff

(***************************************************************************)
(* C12.  Blocked-substring rule and chaining: the test is applied to the   *)
(* name the category rule produced, not to the extractor's name; a name    *)
(* that contains a blocked substring, in any letter case, becomes the      *)
(* fallback name.  After the stage the name contains no blocked substring. *)
(***************************************************************************)
C12_BlockedChain ==
    pc \in {"rag", "returned"} =>
        /\ ~Blocked(ruled.provider_name)
        /\ ruled.provider_name =
              IF Blocked(CategoryRule(merged).provider_name)
              THEN AsimAli
              ELSE CategoryRule(merged).provider_name

\* a blocked name in mixed case was replaced by the fallback name
C12_Witness ==
    /\ pc = "rag"
    /\ merged.doc_type = "Labs"
    /\ merged.provider_name = DrFazal
    /\ ruled.provider_name = AsimAli

(***************************************************************************)
(* Vocabulary of the date claims.                                          *)
(***************************************************************************)
CalendarDates ==
    {dt \in [y : Years, m : 1..12, d : 1..31] : IsDate(dt.y, dt.m, dt.d)}

\* the date written in the k-th accepted input format
Rendering(dt, k) ==
    CASE k = 1 -> Words(dt.d, MonthAbbr[dt.m], dt.y, TRUE)
      [] k = 2 -> Words(dt.d, MonthName[dt.m], dt.y, TRUE)
      [] k = 3 -> Dash(dt.y, dt.m, dt.d, TRUE)
      [] k = 4 -> Slash(dt.m, dt.d, dt.y, TRUE)
      [] k = 5 -> Slash(dt.d, dt.m, dt.y, TRUE)

TwoDigits(n) == IF n < 10 THEN "0" \o ToString(n) ELSE ToString(n)

\* the mm/dd/yyyy form of a date
Canonical(dt) == TwoDigits(dt.m) \o "/" \o TwoDigits(dt.d) \o "/" \o ToString(dt.y)

\* a day/month/year rendering that is also the month/day/year rendering of
\* another date
Ambiguous(dt) == dt.d <= 12 /\ dt.d # dt.m

(***************************************************************************)
(* C19 as stated.  Every rendering of a calendar date in one of the five   *)
(* accepted input formats is mapped by try_parse_dob to the mm/dd/yyyy     *)
(* form of that date.                                                      *)
(***************************************************************************)
C19_Original ==
    \A dt \in CalendarDates : \A k \in 1..5 :
        dob.raw = Rendering(dt, k) => dob.result = Canonical(dt)

(***************************************************************************)
(* C19 amended.  The renderings day month-abbreviation year, day           *)
(* month-name year, year-month-day and month/day/year of a calendar date   *)
(* are mapped to the mm/dd/yyyy form of that date.  The day/month/year     *)
(* rendering is mapped to it only when the day is above 12 or equals the   *)
(* month; otherwise it is read as month/day/year and mapped to the         *)
(* mm/dd/yyyy form of the date with day and month exchanged.               *)
(***************************************************************************)
C19_Canonicalization ==
    \A dt \in CalendarDates : \A k \in 1..5 :
        dob.raw = Rendering(dt, k) =>
            IF k = 5 /\ Ambiguous(dt)
            THEN dob.result = Canonical([y |-> dt.y, m |-> dt.d, d |-> dt.m])
            ELSE dob.result = Canonical(dt)

\* 13 January 1990 written day/month/year was canonicalized
C19_Witness ==
    /\ dob.raw = Rendering([y |-> 1990, m |-> 1, d |-> 13], 5)
    /\ dob.result = "01/13/1990"

(***************************************************************************)
(* C20.  Malformed date: when the date the identity extractor read parses  *)
(* under no accepted format and is not already mm/dd/yyyy, the record      *)
(* process_fax returns and the answer of /process have dateOfBirth equal   *)
(* to the empty string, the other fields are as without the date, and the  *)
(* call succeeds.                                                          *)
(***************************************************************************)
C20_MalformedDate ==
    (pc = "returned" /\ writes[1].date_of_birth = try_parse_dob(Other(""))) =>
        /\ state.date_of_birth = ""
        /\ process.status_code = 200
        /\ process.body.date_of_birth = ""
        /\ process.body.patient_name = writes[1].patient_name

(***************************************************************************)
(* Vocabulary of the matcher claims: the two similarity scores and the     *)
(* four rule conditions of a call, in hundredths.                          *)
(***************************************************************************)
SetOverlap(t, c) == fuzz_token_set_ratio(normalize_name(t), normalize_name(c))

SubstringOverlap(t, c) == fuzz_partial_ratio(normalize_name(t), normalize_name(c))

FirstTokenEqual(t, c) == first_name_only(t) = first_name_only(c)

SurnamePartial(t, c) ==
    \E n \in 1..Len(last_name_tokens(t)) :
        fuzz_partial_ratio(last_name_tokens(t)[n], normalize_name(c)) >= 80

Rule1(t, c) == SetOverlap(t, c) >= 70

Rule2(t, c) == FirstTokenEqual(t, c) /\ SetOverlap(t, c) >= 60

Rule3(t, c) == FirstTokenEqual(t, c) /\ SurnamePartial(t, c)

Rule4(t, c) == SubstringOverlap(t, c) >= 70

(***************************************************************************)
(* C13.  strong_enough_match applies rules 1-4 in order: it reports a      *)
(* match exactly when one of the four rule conditions holds, with the      *)
(* reason and score of the lowest-numbered rule that holds (rules 1, 2:    *)
(* set-overlap; rule 3: the larger of set-overlap and substring-overlap;   *)
(* rule 4: substring-overlap), and the score is within [0,1].  Among the   *)
(* candidates passing rule 1 a higher set-overlap gives a score at least   *)
(* as high.                                                                *)
(***************************************************************************)
C13_RuleCascade ==
    match.called =>
        LET t == match.target
            c == match.candidate
            r == match.result
        IN  \* a rule that needs no first name holds: a match is reported
            /\ (Rule1(t, c) \/ Rule4(t, c)) => (r # Raised /\ r.ok)
            /\ r # Raised =>
                 /\ r.ok <=> (Rule1(t, c) \/ Rule2(t, c) \/ Rule3(t, c) \/ Rule4(t, c))
                 /\ r.score \in 0..100
                 /\ Rule1(t, c) =>
                        r.reason = "token_set >= base_threshold" /\ r.score = SetOverlap(t, c)
                 /\ (~Rule1(t, c) /\ Rule2(t, c)) =>
                        r.reason = "first name exact + relaxed token_set" /\ r.score = SetOverlap(t, c)
                 /\ (~Rule1(t, c) /\ ~Rule2(t, c) /\ Rule3(t, c)) =>
                        /\ r.reason = "first exact + last partial"
                        /\ r.score >= SetOverlap(t, c)
                        /\ r.score >= SubstringOverlap(t, c)
                        /\ r.score \in {SetOverlap(t, c), SubstringOverlap(t, c)}
                 /\ (~Rule1(t, c) /\ ~Rule2(t, c) /\ ~Rule3(t, c) /\ Rule4(t, c)) =>
                        r.reason = "partial >= base_threshold" /\ r.score = SubstringOverlap(t, c)
                 /\ \A c2 \in PatientNames :
                        (Rule1(t, c) /\ Rule1(t, c2) /\ strong_enough_match(t, c2) # Raised
                            /\ SetOverlap(t, c) >= SetOverlap(t, c2))
                        => r.score >= strong_enough_match(t, c2).score

(***************************************************************************)
(* C17.  The matcher is total: every call of strong_enough_match returns   *)
(* a (matched, score, reason) result without raising, whatever the two     *)
(* strings are, and an empty target is never matched.                      *)
(***************************************************************************)
C17_MatcherTotal ==
    match.called =>
        /\ match.result # Raised
        /\ match.target = << >> => ~match.result.ok

(***************************************************************************)
(* Vocabulary of the selection claims.                                     *)
(***************************************************************************)
\* candidate i of the call passed strong_enough_match
Passed(i) ==
    /\ strong_enough_match(sel.patient_name, sel.rows[i].name) # Raised
    /\ strong_enough_match(sel.patient_name, sel.rows[i].name).ok

ScoreOf(i) == strong_enough_match(sel.patient_name, sel.rows[i].name).score

PassedRows == {i \in 1..Len(sel.rows) : Passed(i)}

\* the passed candidates with the maximal score
TopRows == {i \in PassedRows : \A k \in PassedRows : ScoreOf(i) >= ScoreOf(k)}

C15_TieBreak ==
    (sel.called /\ sel.dropdown /\ Len(sel.rows) >= 2 /\ sel.chosen # 0) =>
        LET supplied == {i \in TopRows : sel.rows[i].mrn # << >>}
        IN  IF supplied # {}
            THEN /\ sel.chosen \in supplied
                 /\ \A i \in supplied : sel.rows[sel.chosen].mrn[1] <= sel.rows[i].mrn[1]
            ELSE \A i \in TopRows : sel.chosen <= i

(***************************************************************************)
(* Vocabulary of the menu claims.                                          *)
(***************************************************************************)
TargetNorm == TalkEHRBot_normalize_name(menu.doc_type)

\* set-overlap score of option i against the normalized target
OptionScore(i) == rapidfuzz_token_set_ratio(TargetNorm, TalkEHRBot_normalize_name(menu.opts[i]))

\* the earliest option with the highest score
TopOption ==
    CHOOSE i \in 1..Len(menu.opts) :
        /\ \A k \in 1..Len(menu.opts) : ~FracGreater(OptionScore(k), OptionScore(i))
        /\ \A k \in 1..(i - 1) : FracGreater(OptionScore(i), OptionScore(k))

AtLeastThreshold(x) == x[1] >= 80 * x[2]

\* the normalized text of option i contains the normalized target or is
\* contained in it
Related(i) ==
    \/ Contains(TargetNorm, TalkEHRBot_normalize_name(menu.opts[i]))
    \/ Contains(TalkEHRBot_normalize_name(menu.opts[i]), TargetNorm)

\* the related options whose click succeeds
OnSight == {i \in 1..Len(menu.opts) : Related(i) /\ menu.opts[i] \in menu.clickable}

\* the call ended after looking at the options
Resolved == menu.pc = "done" /\ menu.exit = "resolved"

(***************************************************************************)
(* C16 as stated.  The option select_doc_type selects is always the one    *)
(* with the highest set-overlap score against the normalized target, ties  *)
(* to the earliest option, and only if that score is at least the          *)
(* threshold (80); with accept_first_if_no_match false no option is        *)
(* selected on another ground.                                             *)
(***************************************************************************)
C16_Original ==
    (Resolved /\ ~menu.accept_first_if_no_match /\ menu.selected # << >>) =>
        /\ menu.selected = <<menu.opts[TopOption]>>
        /\ AtLeastThreshold(OptionScore(TopOption))

(***************************************************************************)
(* C16 amended.  With accept_first_if_no_match false, select_doc_type      *)
(* first selects, in input order, the first option whose normalized text   *)
(* contains the normalized target or is contained in it and whose click    *)
(* succeeds, whatever its score.  Only when there is none it selects the   *)
(* option with the highest set-overlap score, ties to the earliest, and    *)
(* only if that score is above 0, at least the threshold (80) and the      *)
(* click succeeds.  No option is selected on another ground.               *)
(***************************************************************************)
C16_MenuOption ==
    (Resolved /\ ~menu.accept_first_if_no_match) =>
        IF OnSight # {}
        THEN /\ menu.selected = <<menu.opts[CHOOSE i \in OnSight : \A k \in OnSight : i <= k]>>
             /\ menu.returned
        ELSE IF /\ AtLeastThreshold(OptionScore(TopOption))
                /\ menu.opts[TopOption] \in menu.clickable
        THEN /\ menu.selected = <<menu.opts[TopOption]>>
             /\ menu.returned
        ELSE /\ menu.selected = << >>
             /\ ~menu.returned

\* "Lab" listed before "Labs" is taken on sight for the target "Labs"
C16_Witness ==
    /\ menu.pc = "done"
    /\ ~menu.accept_first_if_no_match
    /\ menu.doc_type = <<"L", "a", "b", "s">>
    /\ menu.opts = <<<<"L", "a", "b">>, <<"L", "a", "b", "s">>>>
    /\ menu.selected = <<<<"L", "a", "b">>>>
    /\ menu.ground = "substring"

(***************************************************************************)
(* C18.  Given an empty candidate list, select_doc_type called with its    *)
(* default arguments returns False: once its text is typed and no option   *)
(* is visible, the call ends, and it ends with the 'no match' outcome.     *)
(* (select_patient returns False at line 155 for an empty list.)           *)
(***************************************************************************)
C18_EmptyListReturns ==
    [](( /\ menu.pc = "poll"
         /\ menu.opts = << >>
         /\ menu.max_wait = << >>
         /\ ~menu.accept_first_if_no_match)
        => <>(menu.pc = "done" /\ ~menu.returned))

(***************************************************************************)
(* C21.  Normalization is idempotent: for every string s,                  *)
(* normalize_name(normalize_name(s)) = normalize_name(s).                  *)
(***************************************************************************)
C21_Idempotent == norm.called => norm.twice = norm.once

(***************************************************************************)
(* C28.  Whenever try_parse_dob returns a value other than None, the value *)
(* is the mm/dd/yyyy form of an existing calendar date: month 01-12 and a  *)
(* day that exists in that month and year.                                 *)
(***************************************************************************)
C28_ValidDate ==
    (dob.result # "<no call>" /\ dob.result # None) =>
        \E dt \in CalendarDates : dob.result = Canonical(dt)

(***************************************************************************)
(* Vocabulary of the filing-run claims.                                    *)
(***************************************************************************)
\* the bot methods the run has called so far
StepsCalled == {run.steps[i][1] : i \in DOMAIN run.steps}

\* the run has called the method and it had the outcome
Did(step, outcome) == \E i \in DOMAIN run.steps : run.steps[i] = <<step, outcome>>

SelectionSteps ==
    {"select_patient", "select_doc_type", "select_doc_sub_type", "select_assigned_to", "add_comments"}

\* the run has its record, and a required field of it is empty
RequiredFieldEmpty ==
    /\ run.response # NoRecord
    /\ "" \in {run.response.patient_name, run.response.doc_type, run.response.provider_name}

Finished == run.pc = "done"

(***************************************************************************)
(* C22 as stated.  In a filing run whose record has an empty patient name, *)
(* category or provider name, no selection step is attempted, Save is      *)
(* never clicked, and when the run has ended the document has been         *)
(* cancelled: Cancel was clicked.                                          *)
(***************************************************************************)
C22_Original ==
    RequiredFieldEmpty =>
        /\ StepsCalled \cap SelectionSteps = {}
        /\ "save_button" \notin StepsCalled
        /\ Finished => Did("cancel_button", "clicked")

(***************************************************************************)
(* C22 amended.  In a filing run whose record has an empty patient name,   *)
(* category or provider name, no selection step is attempted and Save is   *)
(* never clicked; the run calls cancel_button, once, and ends.  The        *)
(* document is cancelled when that call clicks Cancel, and the run returns *)
(* True; when the wait for the Cancel button raises, nothing is clicked,   *)
(* run_once returns False and _run_once returns True.                      *)
(***************************************************************************)
C22_ManualGate ==
    RequiredFieldEmpty =>
        /\ StepsCalled \cap SelectionSteps = {}
        /\ "save_button" \notin StepsCalled
        /\ Finished =>
            /\ Len(run.steps) = 2
            /\ run.steps[2][1] = "cancel_button"
            /\ run.steps[2][2] = "clicked" => run.ret = "True"
            /\ run.steps[2][2] = "raised" =>
                   run.ret = (IF run.who = "run_once" THEN "False" ELSE "True")

\* a run with no patient name ended with the click on Cancel
C22_Witness ==
    /\ Finished
    /\ run.response.patient_name = ""
    /\ run.response.doc_type = "Lab Report"
    /\ Did("cancel_button", "clicked")
    /\ run.ret = "True"

\* the steps of a run that passed the test of the required fields, in the
\* order of the code; the subtype step only for a non-empty subtype
FilingOrder ==
    <<"select_patient", "select_doc_type">>
    \o (IF run.response.doc_subtype # "" THEN <<"select_doc_sub_type">> ELSE << >>)
    \o <<"select_assigned_to", "add_comments", "save_button">>

\* the calls of the run after get_url
Body == SubSeq(run.steps, 2, Len(run.steps))

\* the first n steps of the order have been called, in order, each one
\* after the success of the one before, and nothing else but the Cancel
\* that follows a patient selection that returned False
InOrder(n) ==
    /\ \A i \in 1..n : Body[i][1] = FilingOrder[i]
    /\ \A i \in 1..(n - 1) : Body[i][2] = "True"
    /\ \/ Len(Body) = n
       \/ /\ n = 1
          /\ Len(Body) = 2
          /\ Body[1] = <<"select_patient", "False">>
          /\ Body[2][1] = "cancel_button"

\* the run has gone past the test of the required fields
PastGate == run.response # NoRecord /\ ~RequiredFieldEmpty

\* select_patient was called and did not return True
PatientFailed == \E i \in DOMAIN run.steps : run.steps[i][1] = "select_patient" /\ run.steps[i][2] # "True"

(***************************************************************************)
(* C26 as stated.  In a filing run the steps patient, doc type, subtype    *)
(* (for a non-empty subtype), assigned-to, comments and Save are taken in  *)
(* that order, each only after the success of the one before, so Save is   *)
(* clicked only after all of them succeeded and nothing follows a failed   *)
(* step; and a run whose patient selection failed calls cancel_button      *)
(* before it ends and never Save.                                          *)
(***************************************************************************)
C26_Original ==
    PastGate =>
        /\ \E n \in 0..Len(FilingOrder) : InOrder(n)
        /\ (Finished /\ PatientFailed) =>
               ("cancel_button" \in StepsCalled /\ "save_button" \notin StepsCalled)

(***************************************************************************)
(* C26 amended.  The steps are taken in the order patient, doc type,       *)
(* subtype (for a non-empty subtype), assigned-to, comments, Save, each    *)
(* only after the one before returned True; a step that returns False or   *)
(* None or raises ends the run without Save.  A patient selection that     *)
(* returns False is followed by one call of cancel_button and the run      *)
(* returns True when Cancel was clicked, False when the wait for the       *)
(* button raised.  A patient selection that raises is followed by no call  *)
(* at all: run_once returns False and the exception leaves _run_once.      *)
(***************************************************************************)
C26_FilingOrder ==
    PastGate =>
        /\ \E n \in 0..Len(FilingOrder) : InOrder(n)
        /\ "save_button" \notin StepsCalled =>
               \A i \in DOMAIN Body : Body[i][2] \notin {"True", "clicked"} =>
                   \/ Finished /\ i = Len(Body)
                   \/ Body[i] = <<"select_patient", "False">> /\ i = 1
        /\ (Finished /\ Did("select_patient", "False")) =>
               /\ Len(Body) = 2
               /\ run.ret = (IF Body[2][2] = "clicked" THEN "True" ELSE "False")
        /\ Did("select_patient", "raised") =>
               /\ Finished
               /\ Len(Body) = 1
               /\ run.ret = (IF run.who = "run_once" THEN "False" ELSE "raised")

\* a run with a subtype went through the five steps and clicked Save
C26_Witness ==
    /\ Finished
    /\ run.response.doc_subtype = "CBC"
    /\ Len(Body) = 6
    /\ Did("save_button", "clicked")
    /\ run.ret = "True"

(***************************************************************************)
(* Vocabulary of the store's frame claim.                                  *)
(***************************************************************************)
\* the document texts that have an entry
StoredTexts(c) == {e.doc : e \in c}

\* the step is a call of add
IsAdd == \E t \in Texts : \E correction \in Corrections : Add(t, correction)

(***************************************************************************)
(* C23.  The correction store is written only by add: a step of query or   *)
(* of process_fax leaves every stored entry as it is and adds none, and no *)
(* step of add, query or process_fax removes the entry of a document text, *)
(* so the set of stored document texts only grows.                         *)
(***************************************************************************)
C23_WrittenOnlyByAdd ==
    [][/\ coll' # coll => IsAdd
       /\ StoredTexts(coll) \subseteq StoredTexts(coll')]_vars

\* add, process_fax with a lookup that found a correction, and a direct
\* query have all acted on a store that holds two texts
C23_Witness ==
    /\ Cardinality(StoredTexts(coll)) = 2
    /\ pc = "returned"
    /\ rag.outcome = "found"
    /\ lastQuery # {}

(***************************************************************************)
(* C24.  When two concurrent calls add(t, f1) and add(t, f2) have both     *)
(* completed, the store holds exactly one entry for t, and its correction  *)
(* is the whole of the correction whose record reached the index last.     *)
(***************************************************************************)
C24_ConcurrentAdd ==
    (adds.pc = "running" /\ \A i \in AddThreads : adds.at[i] = "done") =>
        \E e \in coll :
            /\ e.doc = adds.text
            /\ \A o \in coll : o.doc = adds.text => o = e
            /\ e.meta = json_dumps(adds.fields[adds.order[2]])

(***************************************************************************)
(* C25.  The row that select_patient clicks displays, when it is clicked,  *)
(* the name of the candidate chosen in the scoring pass, whatever the      *)
(* result list shows at the attempts of the click.                         *)
(***************************************************************************)
C25_ClicksChosenRow ==
    clk.caller = "select_patient" =>
        \A i \in DOMAIN clk.clicked : clk.clicked[i].name = clk.text

Running == {k \in 1..MaxClicks : app.at[k] = "run"}

\* the Normal-mode threads that are alive
NormalAlive == {k \in 1..MaxClicks : app.kind[k] = "normal" /\ is_alive(k)}

(***************************************************************************)
(* C27.  In the desktop client at most one thread is inside _run_once at   *)
(* any time: Normal mode never has two worker threads alive, no two        *)
(* threads (Next Fax requests, the Normal-mode loop) run _run_once in      *)
(* parallel, and at most one training driver is ever built.                *)
(***************************************************************************)
C27_SingleRun ==
    /\ Cardinality(NormalAlive) <= 1
    /\ Cardinality(Running) <= 1
    /\ app.built <= 1

(***************************************************************************)
(* C30.  For the same extractor outputs the record the backend process_fax *)
(* returns is the record the legacy process_fax returns whenever the       *)
(* lookup found no correction, the store was unavailable, the lookup       *)
(* raised or the input text is empty; in every case the two records agree  *)
(* on all fields but doc_type and doc_subtype.                             *)
(***************************************************************************)
C30_RefinesLegacy ==
    pc = "returned" =>
        /\ rag.outcome # "found" => state = legacy_process_fax
        /\ \A k \in Fields \ CorrectionKeys : state[k] = legacy_process_fax[k]

\* a call whose lookup found a correction returned a category that the
\* legacy pipeline does not return
C30_Witness ==
    /\ pc = "returned"
    /\ rag.outcome = "found"
    /\ state.doc_type # legacy_process_fax.doc_type
    /\ state.provider_name = legacy_process_fax.provider_name

=============================================================================
